---------------------------- MODULE Spec2Model ----------------------------
(***************************************************************************)
(* Storage layer of the time-series database: series index, codec,        *)
(* storage engine, query cache, write-ahead log and batch writer.         *)
(*                                                                         *)
(* Strings are sequences of bytes, a uint64 is its eight bytes (least     *)
(* significant first), a time.Time is a number of ticks since the Unix    *)
(* epoch (TicksPerSecond ticks make one second).                          *)
(***************************************************************************)
EXTENDS Integers, Sequences, FiniteSets, TLC

VARIABLES
    series,       \* Index.series: fingerprint -> seriesMetadata
    labelIndex,   \* Index.labelIndex: label name -> label value -> IDs
    idxOp,        \* the last Index call: its arguments, result and pre-state
    firstID,      \* history: metric -> the ID its first AddSeries returned
    nUpdates,     \* number of Index.UpdateTimeRange calls made
    bounded,      \* history: the series IDs whose time bounds UpdateTimeRange has set
    db,           \* BadgerDB: key -> payload bytes
    written,      \* history: <<tenant, metric, sample>> of every Write call
    touched,      \* history: <<tenant, metric>> -> series entries written, any failed
    nWrites,      \* number of Storage.Write calls made
    stOp,         \* the last Storage call: its arguments and result
    cfg,          \* badgerStorage.cfg: the Config the storage was created with
    capacity,     \* QueryCache.capacity
    ttl,          \* QueryCache.ttl, in ticks
    cache,        \* QueryCache.cache: key -> cacheEntry (result, timestamp)
    lru,          \* QueryCache.lru: the keys of the list, front first
    now,          \* the clock, in ticks
    qcOp,         \* the last QueryCache call: its arguments and result
    recency,      \* history: the cached keys, the most recently touched first
    putTime,      \* history: cached key -> time of its last Put
    calls,        \* CachedStorage: caller -> the call it is in and where it stands
    hits,         \* CachedStorage.hits
    misses,       \* CachedStorage.misses
    nCalls,       \* the number of CachedStorage calls begun
    commits,      \* history: the number of writes the engine has carried out
    returned,     \* history: the latest engine write whose CachedStorage.Write returned nil
    computedAt,   \* history: cached key -> the engine writes its result was computed after
    csOp,         \* the last CachedStorage call that returned
    files,        \* the WAL directory: file name -> the entries on disk
    wal,          \* the open WAL: its file name and its bufio.Writer, or closed
    bw,           \* the BatchWriter: buffer and bufferSize, or closed; history: accepted
    store,        \* the batches the underlying store has taken, in order
    submitted,    \* history: the requests WAL.Append has taken
    appendLog,    \* history: the same requests, in the order of their Append calls
    acked,        \* history: the requests for which BatchWriter.Write returned nil
    stored,       \* history: the requests that reached the underlying store
    recovered,    \* history: the requests ReplayWAL passed to a handler that returned nil
    afterCrash,   \* history: the process crashed and has not been started again
    nOpens,       \* the number of NewWAL calls
    crashes,      \* the number of crashes
    handlerErrors, \* the number of errors the replay handler returned
    walOp,        \* the last WAL, BatchWriter or ReplayWAL call
    encoded,      \* the buffer a Compressor produced last, and what it was made from
    codecOp,      \* the last Compressor call: its arguments and result
    timers,       \* the auto-flush timer of the WAL and of the BatchWriter, its callback, and Close
    mu,           \* the mutexes: badgerStorage.mu, QueryCache.mu, CachedStorage.mu, WAL.mu, BatchWriter.mu
    goroutines,   \* the calls in progress: goroutine -> where it stands and what it has seen
    engine,       \* what the store holds of the request of the Write call in progress
    staged        \* BatchWriter.buffer as the calls in progress see it: its length

idxVars == <<series, labelIndex, idxOp, firstID, nUpdates, bounded>>
stVars == <<db, written, touched, nWrites, stOp, cfg>>
qcVars == <<capacity, ttl, cache, lru, now, qcOp, recency, putTime>>
walVars == <<files, wal, bw, store, submitted, appendLog, acked, stored, recovered, afterCrash, nOpens, crashes, handlerErrors, walOp>>
csVars == <<calls, hits, misses, nCalls, commits, returned, computedAt, csOp>>
codecVars == <<encoded, codecOp>>
timerVars == <<timers>>
concVars == <<mu, goroutines, engine, staged>>
vars == <<series, labelIndex, idxOp, firstID, nUpdates, bounded, db, written, touched, nWrites, stOp, cfg,
          capacity, ttl, cache, lru, now, qcOp, recency, putTime,
          calls, hits, misses, nCalls, commits, returned, computedAt, csOp,
          files, wal, bw, store, submitted, appendLog, acked, stored, recovered, afterCrash, nOpens, crashes, handlerErrors, walOp,
          encoded, codecOp,
          timers,
          mu, goroutines, engine, staged>>

-----------------------------------------------------------------------------
(* Bytes and strings *)

Str_a == <<97>>
Str_a_slash == <<97, 47>>
Str_c == <<99>>
Str_h == <<104>>
Str_m == <<109>>
Str_s == <<115>>
Str_G == <<71>>
Str_P == <<80>>
Str_2 == <<50>>
Str_4 == <<52>>
Str_D == <<68>>
NameLabel == <<95, 95, 110, 97, 109, 101, 95, 95>>

RECURSIVE Pow2(_)
Pow2(n) == IF n = 0 THEN 1 ELSE 2 * Pow2(n - 1)

RECURSIVE XorBits(_, _, _)
XorBits(a, b, n) ==
    IF n = 0 THEN 0
    ELSE (((a % 2) + (b % 2)) % 2) + (2 * XorBits(a \div 2, b \div 2, n - 1))

\* Lexicographic order on byte strings (Go's string comparison).
RECURSIVE StrLess(_, _)
StrLess(x, y) ==
    IF Len(y) = 0 THEN FALSE
    ELSE IF Len(x) = 0 THEN TRUE
    ELSE IF Head(x) # Head(y) THEN Head(x) < Head(y)
    ELSE StrLess(Tail(x), Tail(y))

RECURSIVE InsertStr(_, _)
InsertStr(sorted, x) ==
    IF Len(sorted) = 0 THEN <<x>>
    ELSE IF StrLess(x, Head(sorted)) THEN <<x>> \o sorted
    ELSE <<Head(sorted)>> \o InsertStr(Tail(sorted), x)

RECURSIVE SortStrings(_)
SortStrings(keys) ==
    IF Len(keys) = 0 THEN <<>>
    ELSE InsertStr(SortStrings(Tail(keys)), Head(keys))

\* The orders in which a Go map with key set S can be ranged over.
Orders(S) ==
    {o \in [1..Cardinality(S) -> S] : \A i, j \in 1..Cardinality(S) : i # j => o[i] # o[j]}

SeqToSet(s) == {s[i] : i \in 1..Len(s)}

-----------------------------------------------------------------------------
(* Series index *)

FNVOffsetBasis == <<37, 35, 34, 132, 228, 156, 242, 203>>
FNVPrime == <<179, 1, 0, 0, 0, 1, 0, 0>>

RECURSIVE MulColumn(_, _, _, _)
MulColumn(x, y, k, i) ==
    IF i > k THEN 0 ELSE (x[i] * y[k + 1 - i]) + MulColumn(x, y, k, i + 1)

RECURSIVE MulFrom(_, _, _, _)
MulFrom(x, y, k, carry) ==
    IF k > 8 THEN <<>>
    ELSE LET t == MulColumn(x, y, k, 1) + carry
         IN  <<(t % 256)>> \o MulFrom(x, y, k + 1, t \div 256)

\* x * y modulo 2^64 on eight-byte words.
Mul64(x, y) == MulFrom(x, y, 1, 0)

XorLowByte(hash, b) == [hash EXCEPT ![1] = XorBits(hash[1], b, 8)]

RECURSIVE hashFrom(_, _)
hashFrom(hash, data) ==
    IF Len(data) = 0 THEN hash
    ELSE hashFrom(Mul64(XorLowByte(hash, Head(data)), FNVPrime), Tail(data))

hashBytes(data) == hashFrom(FNVOffsetBasis, data)

RECURSIVE fingerprintBytes(_, _)
fingerprintBytes(labels, keys) ==
    IF Len(keys) = 0 THEN <<>>
    ELSE <<0>> \o Head(keys) \o <<0>> \o labels[Head(keys)]
         \o fingerprintBytes(labels, Tail(keys))

fingerprintKeysUnsorted(keys) == keys

fingerprintKeys(keys) == SortStrings(keys)

\* rangeOrder is the order in which the range over metric.Labels yields keys.
calculateFingerprint(metric, rangeOrder) ==
    hashBytes(metric.Name \o fingerprintBytes(metric.Labels, fingerprintKeys(rangeOrder)))

Labels0 == <<>>
LabelsOf(method, status) == [k \in {Str_m, Str_s} |-> IF k = Str_m THEN method ELSE status]

MetricA == [Name |-> Str_h, Labels |-> LabelsOf(Str_G, Str_2)]
MetricB == [Name |-> Str_h, Labels |-> LabelsOf(Str_P, Str_2)]
MetricC == [Name |-> Str_h, Labels |-> LabelsOf(Str_G, Str_4)]
MetricD == [Name |-> Str_c, Labels |-> Labels0]

Metrics == {MetricA, MetricB, MetricC, MetricD}

\* A metric whose label map has a __name__ key of its own, with the metric's
\* name as the value.
MetricN == [Name |-> Str_h, Labels |-> [k \in {NameLabel} |-> Str_h]]

AllMetrics == Metrics \cup {MetricN}

\* calculateFingerprint on the metrics of the model, computed once.
fingerprintTable ==
    UNION {{<<metric, rangeOrder, calculateFingerprint(metric, rangeOrder)>> :
               rangeOrder \in Orders(DOMAIN metric.Labels)} : metric \in AllMetrics}

fingerprintOf ==
    [metric \in AllMetrics |->
        [rangeOrder \in Orders(DOMAIN metric.Labels) |->
            (CHOOSE e \in fingerprintTable : e[1] = metric /\ e[2] = rangeOrder)[3]]]

\* a < b on uint64.
RECURSIVE LessFrom(_, _, _)
LessFrom(a, b, k) ==
    IF k = 0 THEN FALSE
    ELSE IF a[k] # b[k] THEN a[k] < b[k]
    ELSE LessFrom(a, b, k - 1)

LessID(a, b) == LessFrom(a, b, 8)

RECURSIVE InsertID(_, _)
InsertID(sorted, x) ==
    IF Len(sorted) = 0 THEN <<x>>
    ELSE IF LessID(x, Head(sorted)) THEN <<x>> \o sorted
    ELSE <<Head(sorted)>> \o InsertID(Tail(sorted), x)

RECURSIVE SortIDs(_)
SortIDs(ids) ==
    IF Len(ids) = 0 THEN <<>>
    ELSE InsertID(SortIDs(Tail(ids)), Head(ids))

\* labelIndex[name][value] = append(labelIndex[name][value], id)
appendBucket(li, name, value, id) ==
    LET valueMap == IF name \in DOMAIN li THEN li[name] ELSE <<>>
        bucket == IF value \in DOMAIN valueMap THEN valueMap[value] ELSE <<>>
        newMap == [v \in DOMAIN valueMap \cup {value} |->
                       IF v = value THEN Append(bucket, id) ELSE valueMap[v]]
    IN  [n \in DOMAIN li \cup {name} |-> IF n = name THEN newMap ELSE li[n]]

RECURSIVE indexLabels(_, _, _, _)
indexLabels(li, labels, order, id) ==
    IF Len(order) = 0 THEN li
    ELSE indexLabels(appendBucket(li, Head(order), labels[Head(order)], id),
                     labels, Tail(order), id)

\* The index after AddSeries and the ID it returns.
addSeries(ser, li, metric, fpOrder, ixOrder) ==
    LET fingerprint == fingerprintOf[metric][fpOrder]
    IN  IF fingerprint \in DOMAIN ser
        THEN [id |-> ser[fingerprint].ID, series |-> ser, labelIndex |-> li]
        ELSE LET meta == [ID |-> fingerprint, Metric |-> metric, MinTime |-> 0, MaxTime |-> 0]
             IN  [id |-> fingerprint,
                  series |-> [f \in DOMAIN ser \cup {fingerprint} |->
                                 IF f = fingerprint THEN meta ELSE ser[f]],
                  labelIndex |-> indexLabels(
                                     appendBucket(li, NameLabel, metric.Name, fingerprint),
                                     metric.Labels, ixOrder, fingerprint)]

RECURSIVE mergeCommon(_, _)
mergeCommon(a, b) ==
    IF Len(a) = 0 \/ Len(b) = 0 THEN <<>>
    ELSE IF LessID(Head(a), Head(b)) THEN mergeCommon(Tail(a), b)
    ELSE IF LessID(Head(b), Head(a)) THEN mergeCommon(a, Tail(b))
    ELSE <<Head(a)>> \o mergeCommon(Tail(a), Tail(b))

\* The merge alone, on slices taken as they come.
intersectNoSort(a, b) == [result |-> mergeCommon(a, b), b |-> b]

\* intersect sorts both slices in place; b is the index's own bucket.
intersect(a, b) == [result |-> mergeCommon(SortIDs(a), SortIDs(b)), b |-> SortIDs(b)]

allSeriesIDs(ser, order) == order

RECURSIVE findLoop(_, _, _, _, _)
findLoop(li, labelSelectors, order, result, first) ==
    IF Len(order) = 0 THEN [result |-> result, labelIndex |-> li]
    ELSE LET labelName == Head(order)
             labelValue == labelSelectors[labelName]
         IN  IF labelName \notin DOMAIN li
             THEN [result |-> <<>>, labelIndex |-> li]
             ELSE IF labelValue \notin DOMAIN li[labelName]
             THEN [result |-> <<>>, labelIndex |-> li]
             ELSE LET seriesIDs == li[labelName][labelValue]
                      both == intersect(result, seriesIDs)
                      res == IF first THEN seriesIDs ELSE both.result
                      li2 == IF first THEN li
                             ELSE [li EXCEPT ![labelName][labelValue] = both.b]
                  IN  IF Len(res) = 0
                      THEN [result |-> <<>>, labelIndex |-> li2]
                      ELSE findLoop(li2, labelSelectors, Tail(order), res, FALSE)

\* The IDs FindSeries returns and the index it leaves. selOrder is the order of
\* the range over labelSelectors, allOrder the order of the range over idx.series.
findSeries(ser, li, labelSelectors, selOrder, allOrder) ==
    IF DOMAIN labelSelectors = {}
    THEN [result |-> allSeriesIDs(ser, allOrder), labelIndex |-> li]
    ELSE findLoop(li, labelSelectors, selOrder, <<>>, TRUE)

SeriesCount == Cardinality(DOMAIN series)

GetSeries(ser, id) == IF id \in DOMAIN ser THEN [ok |-> TRUE, meta |-> ser[id]]
                      ELSE [ok |-> FALSE, meta |-> <<>>]

updateTimeRange(ser, id, minTime, maxTime) ==
    IF id \notin DOMAIN ser THEN [err |-> TRUE, series |-> ser]
    ELSE LET meta == ser[id]
             newMin == IF meta.MinTime = 0 \/ minTime < meta.MinTime
                       THEN minTime ELSE meta.MinTime
             newMax == IF meta.MaxTime = 0 \/ maxTime > meta.MaxTime
                       THEN maxTime ELSE meta.MaxTime
         IN  [err |-> FALSE,
              series |-> [ser EXCEPT ![id] = [meta EXCEPT !.MinTime = newMin,
                                                          !.MaxTime = newMax]]]

(* Inputs of the index operations *)

MaxUpdates == 2

IndexMetrics == {MetricA, MetricB, MetricC}

NameLabelMetrics == {MetricA, MetricB, MetricN}

Selectors ==
    { <<>>,
      [k \in {Str_m} |-> Str_G],
      [k \in {Str_m} |-> Str_D],
      [k \in {Str_a} |-> Str_G],
      [k \in {NameLabel} |-> Str_h],
      [k \in {Str_m, Str_s} |-> IF k = Str_m THEN Str_G ELSE Str_2],
      [k \in {Str_s, NameLabel} |-> IF k = Str_s THEN Str_2 ELSE Str_h],
      [k \in {Str_m, NameLabel} |-> IF k = Str_m THEN Str_G ELSE Str_c] }

UnknownID == <<0, 0, 0, 0, 0, 0, 0, 0>>

TimeRanges == {<<3, 7>>, <<0, 9>>, <<-5, 5>>}

IndexInit ==
    /\ series = <<>>
    /\ labelIndex = <<>>
    /\ idxOp = [op |-> "NewIndex"]
    /\ firstID = <<>>
    /\ nUpdates = 0
    /\ bounded = {}

AddSeries(metrics) ==
    \E metric \in metrics :
      \E fpOrder \in Orders(DOMAIN metric.Labels), ixOrder \in Orders(DOMAIN metric.Labels) :
        LET r == addSeries(series, labelIndex, metric, fpOrder, ixOrder)
        IN  /\ series' = r.series
            /\ labelIndex' = r.labelIndex
            /\ idxOp' = [op |-> "AddSeries", metric |-> metric, id |-> r.id,
                         again |-> metric \in DOMAIN firstID]
            /\ firstID' = IF metric \in DOMAIN firstID THEN firstID
                          ELSE [m \in DOMAIN firstID \cup {metric} |->
                                    IF m = metric THEN r.id ELSE firstID[m]]
            /\ UNCHANGED <<nUpdates, bounded>>

FindSeries ==
    \E labelSelectors \in Selectors :
      \E selOrder \in Orders(DOMAIN labelSelectors),
         allOrder \in (IF DOMAIN labelSelectors = {} THEN Orders(DOMAIN series) ELSE {<<>>}) :
        LET r == findSeries(series, labelIndex, labelSelectors, selOrder, allOrder)
        IN  /\ labelIndex' = r.labelIndex
            /\ idxOp' = [op |-> "FindSeries", labelSelectors |-> labelSelectors,
                         result |-> r.result]
            /\ UNCHANGED <<series, firstID, nUpdates, bounded>>

UpdateTimeRange ==
    /\ nUpdates < MaxUpdates
    /\ \E id \in DOMAIN series \cup {UnknownID}, range \in TimeRanges :
         LET minTime == range[1]
             maxTime == range[2]
             r == updateTimeRange(series, id, minTime, maxTime)
         IN  /\ series' = r.series
             /\ idxOp' = [op |-> "UpdateTimeRange", id |-> id, minTime |-> minTime,
                          maxTime |-> maxTime, err |-> r.err,
                          wasSet |-> id \in bounded,
                          oldMin |-> IF id \in DOMAIN series THEN series[id].MinTime ELSE 0,
                          oldMax |-> IF id \in DOMAIN series THEN series[id].MaxTime ELSE 0]
             /\ nUpdates' = nUpdates + 1
             /\ bounded' = IF r.err THEN bounded ELSE bounded \cup {id}
             /\ UNCHANGED <<labelIndex, firstID>>

-----------------------------------------------------------------------------
(* Codec: a buffer is a sequence of 8-byte little-endian words *)

WordBits == 16

\* A sum or difference reduced to a signed word.
Wrap(x) ==
    LET m == Pow2(WordBits)
        r == x % m
    IN  IF r >= m \div 2 THEN r - m ELSE r

ZstdMagic == <<40, 181, 47, 253>>

\* zstd frames its input; it is lossless.
EncodeAll(src) == ZstdMagic \o src

DecodeAll(data) ==
    IF Len(data) >= 4 /\ SubSeq(data, 1, 4) = ZstdMagic
    THEN [err |-> FALSE, out |-> SubSeq(data, 5, Len(data))]
    ELSE [err |-> TRUE, out |-> <<>>]

\* What an encoder that stores every delta as it is would write.
RECURSIVE plainDeltas(_, _, _)
plainDeltas(timestamps, i, prevDelta) ==
    IF i > Len(timestamps) THEN <<>>
    ELSE LET delta == Wrap(timestamps[i] - timestamps[i - 1])
         IN  <<delta>> \o plainDeltas(timestamps, i + 1, delta)

RECURSIVE deltaOfDeltas(_, _, _)
deltaOfDeltas(timestamps, i, prevDelta) ==
    IF i > Len(timestamps) THEN <<>>
    ELSE LET delta == Wrap(timestamps[i] - timestamps[i - 1])
             deltaOfDelta == Wrap(delta - prevDelta)
         IN  <<deltaOfDelta>> \o deltaOfDeltas(timestamps, i + 1, delta)

CompressTimestamps(timestamps) ==
    IF Len(timestamps) = 0 THEN <<>>
    ELSE EncodeAll(<<timestamps[1]>> \o deltaOfDeltas(timestamps, 2, 0))

RECURSIVE undoDeltas(_, _, _, _, _)
undoDeltas(buf, i, count, prev, prevDelta) ==
    IF i > count THEN [err |-> FALSE, out |-> <<>>]
    ELSE IF i > Len(buf) THEN [err |-> TRUE, out |-> <<>>]
    ELSE LET delta == Wrap(buf[i] + prevDelta)
             ts == Wrap(prev + delta)
             rest == undoDeltas(buf, i + 1, count, ts, delta)
         IN  [err |-> rest.err, out |-> IF rest.err THEN <<>> ELSE <<ts>> \o rest.out]

\* panic: make with a negative count, or &timestamps[0] of an empty slice.
DecompressTimestamps(data, count) ==
    IF Len(data) = 0 THEN [err |-> FALSE, panic |-> FALSE, out |-> <<>>]
    ELSE LET d == DecodeAll(data)
         IN  IF d.err THEN [err |-> TRUE, panic |-> FALSE, out |-> <<>>]
             ELSE IF count <= 0 THEN [err |-> FALSE, panic |-> TRUE, out |-> <<>>]
             ELSE IF Len(d.out) = 0 THEN [err |-> TRUE, panic |-> FALSE, out |-> <<>>]
             ELSE LET rest == undoDeltas(d.out, 2, count, d.out[1], 0)
                  IN  [err |-> rest.err, panic |-> FALSE,
                       out |-> IF rest.err THEN <<>> ELSE <<d.out[1]>> \o rest.out]

Xor(a, b) == XorBits(a, b, WordBits)

\* What an encoder that XORs every value with the first one would write.
RECURSIVE xorWithFirst(_, _)
xorWithFirst(values, i) ==
    IF i > Len(values) THEN <<>>
    ELSE <<Xor(values[i], values[1])>> \o xorWithFirst(values, i + 1)

RECURSIVE xorWithPrev(_, _)
xorWithPrev(values, i) ==
    IF i > Len(values) THEN <<>>
    ELSE <<Xor(values[i], values[i - 1])>> \o xorWithPrev(values, i + 1)

\* A float64 is its bit pattern (math.Float64bits).
CompressValues(values) ==
    IF Len(values) = 0 THEN <<>>
    ELSE EncodeAll(<<values[1]>> \o xorWithPrev(values, 2))

RECURSIVE undoXor(_, _, _, _)
undoXor(buf, i, count, prevBits) ==
    IF i > count THEN [err |-> FALSE, out |-> <<>>]
    ELSE IF i > Len(buf) THEN [err |-> TRUE, out |-> <<>>]
    ELSE LET currentBits == Xor(buf[i], prevBits)
             rest == undoXor(buf, i + 1, count, currentBits)
         IN  [err |-> rest.err, out |-> IF rest.err THEN <<>> ELSE <<currentBits>> \o rest.out]

DecompressValues(data, count) ==
    IF Len(data) = 0 THEN [err |-> FALSE, panic |-> FALSE, out |-> <<>>]
    ELSE LET d == DecodeAll(data)
         IN  IF d.err THEN [err |-> TRUE, panic |-> FALSE, out |-> <<>>]
             ELSE IF count < 0 THEN [err |-> FALSE, panic |-> TRUE, out |-> <<>>]
             ELSE IF Len(d.out) = 0 THEN [err |-> TRUE, panic |-> FALSE, out |-> <<>>]
             ELSE IF count = 0 THEN [err |-> FALSE, panic |-> TRUE, out |-> <<>>]
             ELSE LET rest == undoXor(d.out, 2, count, d.out[1])
                  IN  [err |-> rest.err, panic |-> FALSE,
                       out |-> IF rest.err THEN <<>> ELSE <<d.out[1]>> \o rest.out]

(* Inputs of the compressor *)

MaxLen == 3

MinWord == 0 - Pow2(WordBits - 1)
MaxWord == Pow2(WordBits - 1) - 1

\* Timestamps whose differences leave the word, next to small ones.
TimestampValues == {MinWord, 0, 1, MaxWord}

\* Bit patterns of values: all bits clear, the lowest, the highest, all set.
ValueBits == {0, 1, Pow2(WordBits - 1), Pow2(WordBits) - 1}

ListsOf(S) == UNION {[1..n -> S] : n \in 0..MaxLen}

Counts == 0..(MaxLen + 1)

CodecInit ==
    /\ encoded = [kind |-> "none", input |-> <<>>, data |-> <<>>]
    /\ codecOp = [op |-> "NewCompressor"]

CompressTimestampsCall ==
    \E timestamps \in ListsOf(TimestampValues) :
        /\ encoded' = [kind |-> "timestamps", input |-> timestamps,
                       data |-> CompressTimestamps(timestamps)]
        /\ codecOp' = [op |-> "CompressTimestamps"]

DecompressTimestampsCall ==
    /\ encoded.kind = "timestamps"
    /\ \E count \in Counts :
         codecOp' = [op |-> "DecompressTimestamps", count |-> count,
                     res |-> DecompressTimestamps(encoded.data, count)]
    /\ UNCHANGED encoded

CompressValuesCall ==
    \E values \in ListsOf(ValueBits) :
        /\ encoded' = [kind |-> "values", input |-> values,
                       data |-> CompressValues(values)]
        /\ codecOp' = [op |-> "CompressValues"]

DecompressValuesCall ==
    /\ encoded.kind = "values"
    /\ \E count \in Counts :
         codecOp' = [op |-> "DecompressValues", count |-> count,
                     res |-> DecompressValues(encoded.data, count)]
    /\ UNCHANGED encoded

-----------------------------------------------------------------------------
(* Storage engine *)

TicksPerSecond == 2
SecondsPerHour == 3600

\* time.Time.Unix()
Unix(t) == t \div TicksPerSecond

\* time.Unix(sec, 0)
TimeOfUnix(sec) == sec * TicksPerSecond

\* time.Time.Truncate(time.Hour)
TruncateHour(t) == t - (t % (SecondsPerHour * TicksPerSecond))

RECURSIVE beBytes(_, _)
beBytes(x, n) == IF n = 0 THEN <<>> ELSE beBytes(x \div 256, n - 1) \o <<(x % 256)>>

\* binary.Write(buf, binary.BigEndian, int64)
BigEndianInt64(x) ==
    IF x >= 0 THEN beBytes(x, 8)
    ELSE [i \in 1..8 |-> 255 - beBytes(-x - 1, 8)[i]]

\* binary.Write(buf, binary.BigEndian, uint64)
BigEndianUint64(id) == [i \in 1..8 |-> id[9 - i]]

\* The bytes without the leading zero bytes.
RECURSIVE trimZeros(_)
trimZeros(bytes) ==
    IF Len(bytes) > 0 /\ Head(bytes) = 0 THEN trimZeros(Tail(bytes)) ELSE bytes

\* What a key made of numbers of no fixed width would be.
generateKeyTrimmed(tenantID, seriesID, blockTime) ==
    tenantID \o <<47>> \o trimZeros(BigEndianUint64(seriesID))
        \o <<47>> \o trimZeros(BigEndianInt64(blockTime))

generateKeyNoTenant(tenantID, seriesID, blockTime) ==
    <<47>> \o BigEndianUint64(seriesID) \o <<47>> \o BigEndianInt64(blockTime)

generateKey(tenantID, seriesID, blockTime) ==
    tenantID \o <<47>> \o BigEndianUint64(seriesID) \o <<47>> \o BigEndianInt64(blockTime)

blockTimeOf(sample) == Unix(TruncateHour(sample.Timestamp))

groupSamplesByBlock(samples) ==
    [blockTime \in {blockTimeOf(samples[i]) : i \in 1..Len(samples)} |->
        SelectSeq(samples, LAMBDA sample : blockTimeOf(sample) = blockTime)]

\* json.Marshal / json.Unmarshal of a blockPayload
marshalPayload(payload) == <<payload.Count, payload.CompressedTS, payload.CompressedValues>>

unmarshalPayload(bytes) ==
    [Count |-> bytes[1], CompressedTS |-> bytes[2], CompressedValues |-> bytes[3]]

storedTimestamp(sample) == Unix(sample.Timestamp)

\* The key and the payload bytes writeBlock hands to txn.Set.
writeBlock(tenantID, seriesID, blockTime, samples) ==
    LET timestamps == [i \in 1..Len(samples) |-> storedTimestamp(samples[i])]
        values == [i \in 1..Len(samples) |-> samples[i].Value]
        payload == [Count |-> Len(samples),
                    CompressedTS |-> CompressTimestamps(timestamps),
                    CompressedValues |-> CompressValues(values)]
    IN  [key |-> generateKey(tenantID, seriesID, blockTime),
         value |-> marshalPayload(payload)]

dbSet(dbv, key, value) == [k \in DOMAIN dbv \cup {key} |-> IF k = key THEN value ELSE dbv[k]]

\* An ascending or descending enumeration of a set of integers.
RECURSIVE ascending(_)
ascending(S) ==
    IF S = {} THEN <<>>
    ELSE LET least == CHOOSE x \in S : \A y \in S : x <= y
         IN  <<least>> \o ascending(S \ {least})

Reverse(seq) == [i \in 1..Len(seq) |-> seq[Len(seq) + 1 - i]]

rangeInts(S, rev) == IF rev THEN Reverse(ascending(S)) ELSE ascending(S)

sortedStrings(S) == SortStrings(CHOOSE o \in Orders(S) : TRUE)

rangeStrings(S, rev) == IF rev THEN Reverse(sortedStrings(S)) ELSE sortedStrings(S)

\* A loop over the blocks that goes on to the next block after a failed one.
RECURSIVE writeBlocksOn(_, _, _, _, _, _, _)
writeBlocksOn(dbv, tenantID, seriesID, blocks, order, nSet, failAt) ==
    IF Len(order) = 0 THEN [db |-> dbv, err |-> FALSE, nSet |-> nSet]
    ELSE IF nSet + 1 = failAt
    THEN LET rest == writeBlocksOn(dbv, tenantID, seriesID, blocks, Tail(order),
                                   nSet + 1, failAt)
         IN  [db |-> rest.db, err |-> TRUE, nSet |-> rest.nSet]
    ELSE LET kv == writeBlock(tenantID, seriesID, Head(order), blocks[Head(order)])
         IN  writeBlocksOn(dbSet(dbv, kv.key, kv.value), tenantID, seriesID, blocks,
                           Tail(order), nSet + 1, failAt)

\* The loop over the blocks of one series. nSet counts the calls of db.Update made
\* by this Write; the call number failAt fails (0: none fails).
RECURSIVE writeBlocks(_, _, _, _, _, _, _)
writeBlocks(dbv, tenantID, seriesID, blocks, order, nSet, failAt) ==
    IF Len(order) = 0 THEN [db |-> dbv, err |-> FALSE, nSet |-> nSet]
    ELSE IF nSet + 1 = failAt THEN [db |-> dbv, err |-> TRUE, nSet |-> nSet + 1]
    ELSE LET kv == writeBlock(tenantID, seriesID, Head(order), blocks[Head(order)])
         IN  writeBlocks(dbSet(dbv, kv.key, kv.value), tenantID, seriesID, blocks,
                         Tail(order), nSet + 1, failAt)

\* badgerStorage.Write: the loop over req.Series. rev picks the order of the map ranges.
RECURSIVE storageWrite(_, _, _, _, _, _, _, _)
storageWrite(ser, li, dbv, tenantID, seriesList, rev, nSet, failAt) ==
    IF Len(seriesList) = 0
    THEN [series |-> ser, labelIndex |-> li, db |-> dbv, err |-> FALSE]
    ELSE LET s == Head(seriesList)
             keys == rangeStrings(DOMAIN s.Metric.Labels, rev)
             added == addSeries(ser, li, s.Metric, keys, keys)
             blocks == groupSamplesByBlock(s.Samples)
             w == writeBlocks(dbv, tenantID, added.id, blocks,
                              rangeInts(DOMAIN blocks, rev), nSet, failAt)
         IN  IF w.err
             THEN [series |-> added.series, labelIndex |-> added.labelIndex,
                   db |-> w.db, err |-> TRUE]
             ELSE storageWrite(added.series, added.labelIndex, w.db, tenantID,
                               Tail(seriesList), rev, w.nSet, failAt)

parseLabelSelectors(query) ==
    IF Len(query) = 0 THEN <<>> ELSE [k \in {NameLabel} |-> query]

\* readBlock: the samples of one stored block, or an error. The error of db.View
\* is badger.ErrKeyNotFound for a key that is not there (missing), and another
\* error for a key in broken, whose value the database fails to read.
readBlock(dbv, tenantID, seriesID, blockTime, broken) ==
    LET key == generateKey(tenantID, seriesID, blockTime)
    IN  IF key \notin DOMAIN dbv THEN [err |-> TRUE, missing |-> TRUE, samples |-> <<>>]
        ELSE IF key \in broken THEN [err |-> TRUE, missing |-> FALSE, samples |-> <<>>]
        ELSE LET payload == unmarshalPayload(dbv[key])
                 ts == DecompressTimestamps(payload.CompressedTS, payload.Count)
                 vs == DecompressValues(payload.CompressedValues, payload.Count)
             IN  IF ts.err \/ vs.err
                 THEN [err |-> TRUE, missing |-> FALSE, samples |-> <<>>]
                 ELSE [err |-> FALSE, missing |-> FALSE,
                       samples |-> [i \in 1..payload.Count |->
                                       [Timestamp |-> TimeOfUnix(ts.out[i]),
                                        Value |-> vs.out[i]]]]

inRange(sample, startTime, endTime) ==
    sample.Timestamp > startTime /\ sample.Timestamp < endTime

\* The loop over the blocks of the time range, from blockTime to endBlock.
RECURSIVE readRange(_, _, _, _, _, _, _, _)
readRange(dbv, tenantID, seriesID, blockTime, endBlock, startTime, endTime, broken) ==
    IF blockTime > endBlock THEN <<>>
    ELSE LET r == readBlock(dbv, tenantID, seriesID, blockTime, broken)
             kept == IF r.err THEN <<>>
                     ELSE SelectSeq(r.samples,
                                    LAMBDA sample : inRange(sample, startTime, endTime))
         IN  kept \o readRange(dbv, tenantID, seriesID, blockTime + SecondsPerHour,
                               endBlock, startTime, endTime, broken)

RECURSIVE querySeries(_, _, _, _, _)
querySeries(ser, dbv, req, seriesIDs, broken) ==
    IF Len(seriesIDs) = 0 THEN <<>>
    ELSE LET got == GetSeries(ser, Head(seriesIDs))
             samples == readRange(dbv, req.TenantID, Head(seriesIDs),
                                  Unix(TruncateHour(req.StartTime)),
                                  Unix(TruncateHour(req.EndTime)),
                                  req.StartTime, req.EndTime, broken)
             rest == querySeries(ser, dbv, req, Tail(seriesIDs), broken)
         IN  IF got.ok /\ Len(samples) > 0
             THEN <<[Metric |-> got.meta.Metric, Samples |-> samples]>> \o rest
             ELSE rest

\* badgerStorage.Query: the series of the result. With at most one selector
\* FindSeries does not reach intersect and leaves the index as it is.
querySelects(ser, li, req, rev) ==
    LET labelSelectors == parseLabelSelectors(req.Query)
        allOrder == IF rev THEN Reverse(SortIDs(CHOOSE o \in Orders(DOMAIN ser) : TRUE))
                    ELSE SortIDs(CHOOSE o \in Orders(DOMAIN ser) : TRUE)
    IN  findSeries(ser, li, labelSelectors,
                   rangeStrings(DOMAIN labelSelectors, rev), allOrder).result

storageQuery(ser, li, dbv, req, rev, broken) ==
    querySeries(ser, dbv, req, querySelects(ser, li, req, rev), broken)

\* The error Query returns: nil, whatever readBlock returned.
queryErr(ser, li, dbv, req, rev, broken) == FALSE

\* The block times Query reads for a request.
blockTimes(req) ==
    LET startBlock == Unix(TruncateHour(req.StartTime))
        endBlock == Unix(TruncateHour(req.EndTime))
    IN  {startBlock + (k * SecondsPerHour) :
            k \in 0..((endBlock - startBlock) \div SecondsPerHour)}

\* The outcomes of the readBlock calls of a Query: whether the call returned
\* an error, and whether the error was that of a missing key.
blocksRead(ser, li, dbv, req, rev, broken) ==
    LET ids == querySelects(ser, li, req, rev)
        outcome(r) == [err |-> r.err, missing |-> r.missing]
    IN  {outcome(readBlock(dbv, req.TenantID, ids[i], blockTime, broken)) :
            i \in 1..Len(ids), blockTime \in blockTimes(req)}

(* Inputs of the storage operations *)

MaxWrites == 2

Tenants == {Str_a, Str_a_slash}

HourTicks == SecondsPerHour * TicksPerSecond

\* One hour sharp; half a second later; two hours and one second.
Sample1 == [Timestamp |-> HourTicks, Value |-> 1]
Sample2 == [Timestamp |-> HourTicks + 1, Value |-> 2]
Sample3 == [Timestamp |-> (2 * HourTicks) + TicksPerSecond, Value |-> 3]

SeriesOf(metric, samples) == [Metric |-> metric, Samples |-> samples]

SeriesLists ==
    { <<SeriesOf(MetricA, <<Sample1>>)>>,
      <<SeriesOf(MetricA, <<Sample2>>)>>,
      <<SeriesOf(MetricA, <<Sample3, Sample1>>)>>,
      <<SeriesOf(MetricA, <<Sample1>>), SeriesOf(MetricD, <<Sample3, Sample1>>)>>,
      <<SeriesOf(MetricA, <<Sample1>>), SeriesOf(MetricA, <<Sample2>>)>> }

WriteRequests == {[TenantID |-> t, Series |-> sl] : t \in Tenants, sl \in SeriesLists}

FailPoints == {0, 2}

Queries == {Str_h, <<>>}

TimeRangesQ ==
    { <<0, 3 * HourTicks>>,
      <<HourTicks, (2 * HourTicks) + TicksPerSecond + 1>>,
      <<HourTicks - 1, HourTicks + 1>> }

QueryRequests ==
    {[TenantID |-> t, Query |-> q, StartTime |-> r[1], EndTime |-> r[2]] :
        t \in Tenants, q \in Queries, r \in TimeRangesQ}

\* storage.Config, cut down to the field the model reads: whether the storage
\* is to keep a write-ahead log.
Configs == {[EnableWAL |-> e] : e \in BOOLEAN}

\* DefaultConfig
DefaultConfig == [EnableWAL |-> TRUE]

\* NewStorage: the engine over an empty database; cfg is kept as it is given.
StorageInit ==
    /\ cfg \in Configs
    /\ db = <<>>
    /\ written = {}
    /\ touched = <<>>
    /\ nWrites = 0
    /\ stOp = [op |-> "NewStorage"]

\* The history after a Write call for req that ended with err.
RECURSIVE touch(_, _, _, _)
touch(t, tenantID, seriesList, err) ==
    IF Len(seriesList) = 0 THEN t
    ELSE LET k == <<tenantID, Head(seriesList).Metric>>
             old == IF k \in DOMAIN t THEN t[k] ELSE [entries |-> 0, failed |-> FALSE]
             new == [entries |-> old.entries + 1, failed |-> old.failed \/ err]
         IN  touch([x \in DOMAIN t \cup {k} |-> IF x = k THEN new ELSE t[x]],
                   tenantID, Tail(seriesList), err)

samplesOfRequest(req) ==
    UNION {{<<req.TenantID, req.Series[i].Metric, req.Series[i].Samples[j]>> :
               j \in 1..Len(req.Series[i].Samples)} : i \in 1..Len(req.Series)}

Write ==
    /\ nWrites < MaxWrites
    /\ \E req \in WriteRequests, rev \in BOOLEAN, failAt \in FailPoints :
         LET r == storageWrite(series, labelIndex, db, req.TenantID, req.Series, rev, 0, failAt)
         IN  /\ series' = r.series
             /\ labelIndex' = r.labelIndex
             /\ db' = r.db
             /\ written' = written \cup samplesOfRequest(req)
             /\ touched' = touch(touched, req.TenantID, req.Series, r.err)
             /\ nWrites' = nWrites + 1
             /\ stOp' = [op |-> "Write", req |-> req, err |-> r.err,
                         rev |-> rev, failAt |-> failAt, dbBefore |-> db]
             /\ UNCHANGED <<idxOp, firstID, nUpdates, bounded, cfg>>

\* Tenant IDs, series IDs and block starts for generateKey: tenants that end
\* in '/' and that hold a whole "/seriesID" part or a 0 byte; IDs and block
\* starts whose bytes are those of '/'.
SlashID == <<47, 47, 47, 47, 47, 47, 47, 47>>
ZeroID == <<0, 0, 0, 0, 0, 0, 0, 0>>
KeyTenants == {Str_a, Str_a_slash, Str_a \o <<47, 0>>,
               Str_a \o <<47>> \o BigEndianUint64(SlashID)}
KeyIDs == {ZeroID, SlashID}
KeyBlocks == {0, SecondsPerHour, 47}
KeyTriples == KeyTenants \X KeyIDs \X KeyBlocks

\* generateKey called for two blocks.
GenerateKey ==
    /\ \E a \in KeyTriples, b \in KeyTriples :
         stOp' = [op |-> "generateKey", a |-> a, b |-> b,
                  keyA |-> generateKey(a[1], a[2], a[3]),
                  keyB |-> generateKey(b[1], b[2], b[3])]
    /\ UNCHANGED <<series, labelIndex, idxOp, firstID, nUpdates, bounded, db, written, touched, nWrites, cfg>>

\* The reads that fail in one Query: none, or every one of them.
Breaks == {{}, DOMAIN db}

Query ==
    \E req \in QueryRequests, broken \in Breaks :
     \E rev \in (IF Len(req.Query) = 0 THEN BOOLEAN ELSE {FALSE}) :
      /\ stOp' = [op |-> "Query", req |-> req,
                  result |-> storageQuery(series, labelIndex, db, req, rev, broken),
                  err |-> queryErr(series, labelIndex, db, req, rev, broken),
                  reads |-> blocksRead(series, labelIndex, db, req, rev, broken)]
      /\ UNCHANGED <<series, labelIndex, idxOp, firstID, nUpdates, bounded, db, written, touched, nWrites, cfg>>

-----------------------------------------------------------------------------
(* Query cache *)

\* The bytes of backslash, of the double quote, and of the text \ufffd.
Backslash == <<92>>
EscapedBackslash == <<92, 92>>
EscapedQuote == <<92, 34>>
ReplacementRune == <<92, 117, 102, 102, 102, 100>>

\* A byte of a Go string as json.Marshal sees it: ASCII stands for itself, and a
\* byte that is not part of a UTF-8 encoding is an encoding error. The strings
\* of the model hold ASCII and the bytes 0xF5..0xFF, which no UTF-8 encoding
\* contains.
validUTF8(b) == b < 128

\* json.Marshal of a string, without the enclosing quotes: the backslash and
\* the quote are escaped, and every byte that is not valid UTF-8 is written as
\* the replacement character U+FFFD.
RECURSIVE jsonText(_)
jsonText(str) ==
    IF Len(str) = 0 THEN <<>>
    ELSE LET b == Head(str)
         IN  (IF ~validUTF8(b) THEN ReplacementRune
              ELSE IF <<b>> = Backslash THEN EscapedBackslash
              ELSE IF b = 34 THEN EscapedQuote
              ELSE <<b>>) \o jsonText(Tail(str))

\* QueryCache.generateKey: the SHA-256 of the JSON of tenant, query and the two
\* times in Unix seconds. The object's keys are written in sorted order: end,
\* query, start, tenant. The hash is taken as injective: a key is what it hashes.
cacheKey(req) ==
    <<Unix(req.EndTime), jsonText(req.Query), Unix(req.StartTime), jsonText(req.TenantID)>>

without(l, key) == SelectSeq(l, LAMBDA k : k # key)

\* list.MoveToFront
MoveToFront(l, key) == <<key>> \o without(l, key)

\* list.PushFront
PushFront(l, key) == <<key>> \o l

dropKey(c, key) == [k \in DOMAIN c \ {key} |-> c[k]]

removeLocked(c, l, key) ==
    IF key \in DOMAIN c THEN [cache |-> dropKey(c, key), lru |-> without(l, key)]
    ELSE [cache |-> c, lru |-> l]

\* An entry that expires as soon as its age reaches the TTL.
expiredAtTTL(entry, clock, timeToLive) == clock - entry.timestamp >= timeToLive

expired(entry, clock, timeToLive) == clock - entry.timestamp > timeToLive

qcGet(c, l, key, clock, timeToLive) ==
    IF key \notin DOMAIN c
    THEN [cache |-> c, lru |-> l, hit |-> FALSE, result |-> <<>>]
    ELSE IF expired(c[key], clock, timeToLive)
    THEN LET r == removeLocked(c, l, key)
         IN  [cache |-> r.cache, lru |-> r.lru, hit |-> FALSE, result |-> <<>>]
    ELSE [cache |-> c, lru |-> MoveToFront(l, key), hit |-> TRUE, result |-> c[key].result]

\* The entry at the front of the list.
newestKey(l) == l[1]

\* The key the eviction removes: the entry at the back of the list.
oldestKey(l) == l[Len(l)]

\* A cache that is full only one entry above its capacity.
isFullAbove(l, cap) == Len(l) > cap + 1

isFull(l, cap) == Len(l) > cap

\* What a Put that overwrites an entry where it stands in the list would do.
qcPutInPlace(c, l, key, result, clock, cap) ==
    IF key \in DOMAIN c
    THEN [cache |-> [c EXCEPT ![key] = [result |-> result, timestamp |-> clock]],
          lru |-> l]
    ELSE LET l1 == PushFront(l, key)
             c1 == [k \in DOMAIN c \cup {key} |->
                       IF k = key THEN [result |-> result, timestamp |-> clock] ELSE c[k]]
         IN  IF isFull(l1, cap)
             THEN removeLocked(c1, l1, oldestKey(l1))
             ELSE [cache |-> c1, lru |-> l1]

qcPut(c, l, key, result, clock, cap) ==
    IF key \in DOMAIN c
    THEN [cache |-> [c EXCEPT ![key] = [result |-> result, timestamp |-> clock]],
          lru |-> MoveToFront(l, key)]
    ELSE LET l1 == PushFront(l, key)
             c1 == [k \in DOMAIN c \cup {key} |->
                       IF k = key THEN [result |-> result, timestamp |-> clock] ELSE c[k]]
         IN  IF isFull(l1, cap)
             THEN removeLocked(c1, l1, oldestKey(l1))
             ELSE [cache |-> c1, lru |-> l1]

Size == Cardinality(DOMAIN cache)

\* A sync.Mutex or sync.RWMutex: held by a writer, announced by a writer that
\* waits for the readers to leave, or held by a number of readers.
Unlocked == [writer |-> FALSE, pending |-> FALSE, readers |-> 0]

\* RWMutex.RLock, once it returns: one more reader.
rwRLock(m) == [m EXCEPT !.readers = @ + 1]

\* RWMutex.RUnlock: one reader less.
rwRUnlock(m) == [m EXCEPT !.readers = @ - 1]

\* RWMutex.Unlock. When no writer holds the lock or waits for it, the runtime
\* ends the process with "fatal error: sync: Unlock of unlocked RWMutex". When
\* one does, the count of the readers is made positive again and the mutex of
\* the writers is released: no writer is announced any more, and the readers
\* that held the lock are still counted.
rwUnlock(m) ==
    IF ~m.writer /\ ~m.pending THEN [fatal |-> TRUE, mu |-> m]
    ELSE [fatal |-> FALSE, mu |-> [m EXCEPT !.writer = FALSE, !.pending = FALSE]]

\* QueryCache.Stats, the values it computes: the loop over the entries counts
\* the expired ones.
qcStats(c, clock, timeToLive, cap) ==
    [Size |-> Cardinality(DOMAIN c), Capacity |-> cap,
     Expired |-> Cardinality({k \in DOMAIN c : expired(c[k], clock, timeToLive)})]

(* Inputs of the cache operations *)

MaxCapacity == 2
MaxNow == 2

\* The TTLs a cache is built with: none, and one tick.
CacheTTLs == {0, 1}

\* One request more than the largest capacity, each with a query of its own.
CacheRequests ==
    {[TenantID |-> Str_a, Query |-> <<104, 48 + i>>, StartTime |-> 0, EndTime |-> HourTicks] :
        i \in 0..MaxCapacity}

\* Bytes that are not valid UTF-8 wherever they stand in a string.
Str_xFE == <<254>>
Str_xFF == <<255>>

\* A request, and the requests that differ from it in one of tenant, query,
\* start and end: times by less than a second and by a whole second, tenants
\* that are not valid UTF-8.
KeyRequest == [TenantID |-> Str_xFE, Query |-> Str_h, StartTime |-> 0, EndTime |-> HourTicks]

KeyRequests ==
    {[KeyRequest EXCEPT !.TenantID = t] : t \in {Str_a, Str_xFE, Str_xFF}}
        \cup {[KeyRequest EXCEPT !.Query = Str_s]}
        \cup {[KeyRequest EXCEPT !.StartTime = st] : st \in {1, TicksPerSecond}}
        \cup {[KeyRequest EXCEPT !.EndTime = HourTicks + e] : e \in {1, TicksPerSecond}}

\* Query results, as the cache sees them: two values to tell apart.
CacheResults == {1, 2}

CacheInit ==
    /\ capacity \in 0..MaxCapacity
    /\ ttl \in CacheTTLs
    /\ cache = <<>>
    /\ lru = <<>>
    /\ now = 0
    /\ qcOp = [op |-> "NewQueryCache"]
    /\ recency = <<>>
    /\ putTime = <<>>

\* The histories, cut down to the keys still cached.
keepCached(c, rec) == SelectSeq(rec, LAMBDA k : k \in DOMAIN c)

keepTimes(c, times) == [k \in DOMAIN times \cap DOMAIN c |-> times[k]]

Get(requests) ==
    \E req \in requests :
      LET key == cacheKey(req)
          r == qcGet(cache, lru, key, now, ttl)
      IN  /\ cache' = r.cache
          /\ lru' = r.lru
          /\ qcOp' = [op |-> "Get", key |-> key, hit |-> r.hit, result |-> r.result,
                      cached |-> key \in DOMAIN cache,
                      age |-> IF key \in DOMAIN putTime THEN now - putTime[key] ELSE 0,
                      req |-> req, at |-> now,
                      after |-> IF qcOp.op = "Put"
                                THEN [op |-> "Put", req |-> qcOp.req, at |-> qcOp.at,
                                      first |-> DOMAIN qcOp.cacheBefore = {}]
                                ELSE [op |-> qcOp.op]]
          /\ recency' = keepCached(r.cache, IF r.hit THEN <<key>> \o without(recency, key)
                                            ELSE recency)
          /\ putTime' = keepTimes(r.cache, putTime)
          /\ UNCHANGED <<capacity, ttl, now>>

Put(requests) ==
    \E req \in requests, result \in CacheResults :
      LET key == cacheKey(req)
          r == qcPut(cache, lru, key, result, now, capacity)
      IN  /\ cache' = r.cache
          /\ lru' = r.lru
          /\ qcOp' = [op |-> "Put", key |-> key, result |-> result,
                      cached |-> key \in DOMAIN cache,
                      before |-> recency, cacheBefore |-> cache,
                      at |-> now, req |-> req]
          /\ recency' = keepCached(r.cache, <<key>> \o without(recency, key))
          /\ putTime' = keepTimes(r.cache, [k \in DOMAIN putTime \cup {key} |->
                                               IF k = key THEN now ELSE putTime[k]])
          /\ UNCHANGED <<capacity, ttl, now>>

Clear ==
    /\ cache' = <<>>
    /\ lru' = <<>>
    /\ qcOp' = [op |-> "Clear"]
    /\ recency' = <<>>
    /\ putTime' = <<>>
    /\ UNCHANGED <<capacity, ttl, now>>

\* QueryCache.Stats called while no other call is in progress: qc.mu.RLock(),
\* the count, and the deferred qc.mu.Unlock() on a lock that is held for reading.
Stats ==
    LET u == rwUnlock(rwRLock(Unlocked))
    IN  /\ qcOp' = [op |-> "Stats", stats |-> qcStats(cache, now, ttl, capacity),
                    fatal |-> u.fatal, cacheBefore |-> cache, lruBefore |-> lru,
                    at |-> now]
        /\ UNCHANGED <<capacity, ttl, cache, lru, now, recency, putTime>>

\* The process has not been ended by the runtime.
qcRunning == ~(qcOp.op = "Stats" /\ qcOp.fatal)

\* Time passes.
Tick ==
    /\ now < MaxNow
    /\ now' = now + 1
    /\ UNCHANGED <<capacity, ttl, cache, lru, qcOp, recency, putTime>>

-----------------------------------------------------------------------------
(* CachedStorage: the cache in front of the engine, called concurrently *)

NumCallers == 2
MaxCalls == 3

Callers == 1..NumCallers

CachedWrites ==
    {[TenantID |-> Str_a, Series |-> sl] :
        sl \in {<<SeriesOf(MetricA, <<Sample1>>)>>, <<SeriesOf(MetricA, <<Sample3>>)>>}}

CachedQueries ==
    {[TenantID |-> Str_a, Query |-> q, StartTime |-> 0, EndTime |-> 3 * HourTicks] :
        q \in {Str_h, Str_c}}

Idle == [pc |-> "idle"]

CachedInit ==
    /\ calls = [p \in Callers |-> Idle]
    /\ hits = 0
    /\ misses = 0
    /\ nCalls = 0
    /\ commits = 0
    /\ returned = 0
    /\ computedAt = <<>>
    /\ csOp = [op |-> "NewCachedStorage"]

Max(a, b) == IF a >= b THEN a ELSE b

\* CachedStorage.Write, first step: cs.cache.Clear().
CSWriteClear(p) ==
    /\ calls[p].pc = "idle"
    /\ nCalls < MaxCalls
    /\ \E req \in CachedWrites :
         calls' = [calls EXCEPT ![p] = [pc |-> "WriteStore", req |-> req]]
    /\ nCalls' = nCalls + 1
    /\ cache' = <<>>
    /\ lru' = <<>>
    /\ qcOp' = [op |-> "Clear"]
    /\ recency' = <<>>
    /\ putTime' = <<>>
    /\ computedAt' = <<>>
    /\ UNCHANGED <<capacity, ttl, now, hits, misses, commits, returned, csOp>>
    /\ UNCHANGED idxVars
    /\ UNCHANGED stVars

\* CachedStorage.Write, second step: s.Write(ctx, req) on the engine.
CSWriteStore(p) ==
    /\ calls[p].pc = "WriteStore"
    /\ \E rev \in BOOLEAN, failAt \in FailPoints :
         LET req == calls[p].req
             r == storageWrite(series, labelIndex, db, req.TenantID, req.Series, rev, 0, failAt)
         IN  /\ series' = r.series
             /\ labelIndex' = r.labelIndex
             /\ db' = r.db
             /\ written' = written \cup samplesOfRequest(req)
             /\ touched' = touch(touched, req.TenantID, req.Series, r.err)
             /\ nWrites' = nWrites + 1
             /\ stOp' = [op |-> "Write", err |-> r.err]
             /\ commits' = commits + 1
             /\ calls' = [calls EXCEPT ![p] = [pc |-> "WriteReturn", err |-> r.err,
                                                commit |-> commits + 1]]
    /\ UNCHANGED <<idxOp, firstID, nUpdates, bounded, cfg, hits, misses, nCalls, returned, computedAt, csOp>>
    /\ UNCHANGED qcVars

\* CachedStorage.Write returns the engine's error.
CSWriteReturn(p) ==
    /\ calls[p].pc = "WriteReturn"
    /\ returned' = IF calls[p].err THEN returned ELSE Max(returned, calls[p].commit)
    /\ csOp' = [op |-> "Write", err |-> calls[p].err]
    /\ calls' = [calls EXCEPT ![p] = Idle]
    /\ UNCHANGED <<hits, misses, nCalls, commits, computedAt>>
    /\ UNCHANGED idxVars
    /\ UNCHANGED stVars
    /\ UNCHANGED qcVars

\* CachedStorage.Query, first step: cs.cache.Get(req); a hit returns at once.
CSQueryGet(p) ==
    /\ calls[p].pc = "idle"
    /\ nCalls < MaxCalls
    /\ nCalls' = nCalls + 1
    /\ \E req \in CachedQueries :
         LET key == cacheKey(req)
             r == qcGet(cache, lru, key, now, ttl)
         IN  /\ cache' = r.cache
             /\ lru' = r.lru
             /\ qcOp' = [op |-> "Get", key |-> key, hit |-> r.hit, result |-> r.result,
                         cached |-> key \in DOMAIN cache,
                         age |-> IF key \in DOMAIN putTime THEN now - putTime[key] ELSE 0]
             /\ recency' = keepCached(r.cache, IF r.hit THEN <<key>> \o without(recency, key)
                                               ELSE recency)
             /\ putTime' = keepTimes(r.cache, putTime)
             /\ computedAt' = keepTimes(r.cache, computedAt)
             /\ IF r.hit
                THEN /\ hits' = hits + 1
                     /\ csOp' = [op |-> "Query", req |-> req, hit |-> TRUE, result |-> r.result,
                                 computedAt |-> computedAt[key], returned |-> returned]
                     /\ UNCHANGED <<misses, calls>>
                ELSE /\ misses' = misses + 1
                     /\ calls' = [calls EXCEPT ![p] = [pc |-> "QueryStore", req |-> req]]
                     /\ UNCHANGED <<hits, csOp>>
    /\ UNCHANGED <<capacity, ttl, now, commits, returned>>
    /\ UNCHANGED idxVars
    /\ UNCHANGED stVars

\* CachedStorage.Query, on a miss: s.Query(ctx, req) on the engine.
CSQueryStore(p) ==
    /\ calls[p].pc = "QueryStore"
    /\ LET req == calls[p].req
           result == storageQuery(series, labelIndex, db, req, FALSE, {})
       IN  /\ stOp' = [op |-> "Query", req |-> req, result |-> result]
           /\ calls' = [calls EXCEPT ![p] = [pc |-> "QueryPut", req |-> req, result |-> result,
                                              asOf |-> commits]]
    /\ UNCHANGED <<series, labelIndex, idxOp, firstID, nUpdates, bounded, db, written, touched, nWrites, cfg>>
    /\ UNCHANGED <<hits, misses, nCalls, commits, returned, computedAt, csOp>>
    /\ UNCHANGED qcVars

\* CachedStorage.Query, last step: cs.cache.Put(req, result) and return.
CSQueryPut(p) ==
    /\ calls[p].pc = "QueryPut"
    /\ LET req == calls[p].req
           key == cacheKey(req)
           r == qcPut(cache, lru, key, calls[p].result, now, capacity)
       IN  /\ cache' = r.cache
           /\ lru' = r.lru
           /\ qcOp' = [op |-> "Put", key |-> key, result |-> calls[p].result,
                       cached |-> key \in DOMAIN cache,
                       before |-> recency, cacheBefore |-> cache,
                      at |-> now]
           /\ recency' = keepCached(r.cache, <<key>> \o without(recency, key))
           /\ putTime' = keepTimes(r.cache, [k \in DOMAIN putTime \cup {key} |->
                                                IF k = key THEN now ELSE putTime[k]])
           /\ computedAt' = keepTimes(r.cache, [k \in DOMAIN computedAt \cup {key} |->
                                                   IF k = key THEN calls[p].asOf
                                                   ELSE computedAt[k]])
           /\ csOp' = [op |-> "Query", req |-> req, hit |-> FALSE, result |-> calls[p].result,
                       computedAt |-> calls[p].asOf, returned |-> returned]
    /\ calls' = [calls EXCEPT ![p] = Idle]
    /\ UNCHANGED <<capacity, ttl, now, hits, misses, nCalls, commits, returned>>
    /\ UNCHANGED idxVars
    /\ UNCHANGED stVars

-----------------------------------------------------------------------------
(* Write-ahead log and batch writer *)

\* The bytes json.Marshal writes for a string: the text and its two quotes.
jsonString(str) == Len(str) + 2

\* The bytes of a time in RFC 3339: whole seconds, or down to the nanosecond.
jsonTime(t) == IF t % TicksPerSecond = 0 THEN 22 ELSE 32

\* {"Timestamp":...,"Value":.}
jsonSample(sample) == 13 + jsonTime(sample.Timestamp) + 9 + 1 + 1

RECURSIVE jsonSum(_, _)
jsonSum(lengths, n) == IF n = 0 THEN 0 ELSE lengths[n] + jsonSum(lengths, n - 1)

\* The bytes of a list of elements of these lengths: brackets and commas.
jsonList(lengths) ==
    IF Len(lengths) = 0 THEN 2 ELSE 2 + jsonSum(lengths, Len(lengths)) + (Len(lengths) - 1)

jsonLabels(labels) ==
    LET names == sortedStrings(DOMAIN labels)
    IN  jsonList([i \in 1..Len(names) |->
                     jsonString(names[i]) + 1 + jsonString(labels[names[i]])])

\* {"Name":...,"Labels":...}
jsonMetric(metric) == 8 + jsonString(metric.Name) + 10 + jsonLabels(metric.Labels) + 1

\* {"Metric":...,"Samples":...}
jsonSeries(ser) ==
    10 + jsonMetric(ser.Metric) + 11
       + jsonList([j \in 1..Len(ser.Samples) |-> jsonSample(ser.Samples[j])]) + 1

\* The length of the line Append writes for the entry, the newline not counted:
\* {"timestamp":...,"tenant_id":...,"series":...}
lineLength(entry) ==
    13 + jsonTime(entry.Timestamp) + 13 + jsonString(entry.TenantID) + 10
       + jsonList([i \in 1..Len(entry.Series) |-> jsonSeries(entry.Series[i])]) + 1

\* The longest line bufio.NewScanner hands out, scaled down with the requests of
\* the model: 64 KB in the build.
MaxScanTokenSize == 256

\* What a crash in the middle of a write leaves at the end of a file: the
\* beginning of a line, without its newline.
TornLine == [torn |-> TRUE, long |-> FALSE]

\* json.Unmarshal takes the line.
parses(line) == "torn" \notin DOMAIN line

\* A torn line is as long as what was written behind it makes it.
tooLong(line) == IF parses(line) THEN lineLength(line) >= MaxScanTokenSize ELSE line.long

Closed == [open |-> FALSE]

\* The second the wall clock shows when the clock of the model shows 0. The
\* seconds are scaled down with the model: 9 and 10 stand for any two seconds
\* of which the later has one decimal digit more.
StartSecond == 9

\* time.Now().Unix()
wallSeconds(t) == StartSecond + Unix(t)

\* fmt.Sprintf("%d", n)
RECURSIVE formatDigits(_)
formatDigits(n) ==
    IF n < 10 THEN <<48 + n>> ELSE formatDigits(n \div 10) \o <<48 + (n % 10)>>

formatInt(n) == IF n < 0 THEN <<45>> \o formatDigits(0 - n) ELSE formatDigits(n)

\* fmt.Sprintf("wal-%d.log", sec)
walFileName(sec) == <<119, 97, 108, 45>> \o formatInt(sec) \o <<46, 108, 111, 103>>

\* os.ReadDir: the entries of the directory, sorted by file name.
readDir(f) == sortedStrings(DOMAIN f)

walEntry(req, clock) == [Timestamp |-> clock, TenantID |-> req.TenantID, Series |-> req.Series]

requestOf(entry) == [TenantID |-> entry.TenantID, Series |-> entry.Series]

\* A float64 json.Marshal has no text for: the bit pattern with every bit set.
NaN == Pow2(WordBits) - 1

\* json.Marshal returns an UnsupportedValueError for the entry.
marshalFails(entry) ==
    \E i \in 1..Len(entry.Series) :
        \E j \in 1..Len(entry.Series[i].Samples) :
            entry.Series[i].Samples[j].Value = NaN

\* WAL.Append: the line goes into the bufio.Writer, unless it cannot be marshalled.
walAppend(w, req, clock) ==
    IF marshalFails(walEntry(req, clock))
    THEN [wal |-> w, err |-> TRUE]
    ELSE [wal |-> [w EXCEPT !.writer = Append(@, walEntry(req, clock))], err |-> FALSE]

\* What a writer that buffers the request before it looks at the WAL would hold.
bufferedAnyway(buffer, req, appendErr) == Append(buffer, req)

\* BatchWriter.Write: the buffer after the WAL step; a failed append returns first.
buffered(buffer, req, appendErr) ==
    IF appendErr THEN buffer ELSE Append(buffer, req)

\* The file with the bytes added (O_APPEND): after a torn line, which has no
\* newline, the first line added is the rest of that same line.
appended(data, lines) ==
    IF Len(data) > 0 /\ Len(lines) > 0 /\ ~parses(data[Len(data)])
    THEN SubSeq(data, 1, Len(data) - 1)
            \o <<[torn |-> TRUE, long |-> data[Len(data)].long \/ tooLong(Head(lines))]>>
            \o Tail(lines)
    ELSE data \o lines

\* What a writer that flushes only a buffer beyond its size would test.
bufferOver(buffer, bufferSize) == Len(buffer) > bufferSize

\* BatchWriter.Write: len(bw.buffer) >= bw.bufferSize
bufferFull(buffer, bufferSize) == Len(buffer) >= bufferSize

\* writer.Flush and file.Sync: the lines of the writer reach the file.
flushedFiles(f, w) == [f EXCEPT ![w.name] = appended(@, w.writer)]

\* A crash while the writer's buffer is being written: the file ends in a torn line.
tornFiles(f, w) == [f EXCEPT ![w.name] = appended(@, <<TornLine>>)]

\* The underlying store takes the batch (storage.writeDirect).
writeDirect(st, batchReq) == Append(st, batchReq)

tenantsOf(buffer) == {buffer[i].TenantID : i \in 1..Len(buffer)}

\* What a grouping that keeps only the latest request of a tenant would hand on.
RECURSIVE lastSeries(_, _)
lastSeries(buffer, tenantID) ==
    IF Len(buffer) = 0 THEN <<>>
    ELSE IF buffer[Len(buffer)].TenantID = tenantID THEN buffer[Len(buffer)].Series
    ELSE lastSeries(SubSeq(buffer, 1, Len(buffer) - 1), tenantID)

\* What a grouping that puts each request in front of the earlier ones would hand on.
RECURSIVE concatSeriesReversed(_, _)
concatSeriesReversed(buffer, tenantID) ==
    IF Len(buffer) = 0 THEN <<>>
    ELSE concatSeriesReversed(Tail(buffer), tenantID)
         \o (IF Head(buffer).TenantID = tenantID THEN Head(buffer).Series ELSE <<>>)

RECURSIVE concatSeries(_, _)
concatSeries(buffer, tenantID) ==
    IF Len(buffer) = 0 THEN <<>>
    ELSE (IF Head(buffer).TenantID = tenantID THEN Head(buffer).Series ELSE <<>>)
         \o concatSeries(Tail(buffer), tenantID)

tenantBatches(buffer) == [t \in tenantsOf(buffer) |-> concatSeries(buffer, t)]

\* The loop over tenantBatches in the order given; write number failAt fails.
RECURSIVE writeBatches(_, _, _, _, _)
writeBatches(st, batches, order, n, failAt) ==
    IF Len(order) = 0 THEN [store |-> st, err |-> FALSE, done |-> {}]
    ELSE IF n + 1 = failAt THEN [store |-> st, err |-> TRUE, done |-> {}]
    ELSE LET batchReq == [TenantID |-> Head(order), Series |-> batches[Head(order)]]
             rest == writeBatches(writeDirect(st, batchReq), batches, Tail(order), n + 1, failAt)
         IN  [rest EXCEPT !.done = @ \cup {Head(order)}]

\* What a flush that empties the buffer whether or not the store took it would do.
flushLockedClearing(buffer, st, order, failAt) ==
    IF Len(buffer) = 0 THEN [buffer |-> buffer, store |-> st, err |-> FALSE, done |-> {}]
    ELSE LET r == writeBatches(st, tenantBatches(buffer), order, 0, failAt)
         IN  [buffer |-> <<>>, store |-> r.store, err |-> r.err, done |-> r.done]

\* BatchWriter.flushLocked: done are the tenants whose batch the store took.
flushLocked(buffer, st, order, failAt) ==
    IF Len(buffer) = 0 THEN [buffer |-> buffer, store |-> st, err |-> FALSE, done |-> {}]
    ELSE LET r == writeBatches(st, tenantBatches(buffer), order, 0, failAt)
         IN  [buffer |-> IF r.err THEN buffer ELSE <<>>, store |-> r.store,
              err |-> r.err, done |-> r.done]

reached(buffer, done) == {buffer[i] : i \in {j \in 1..Len(buffer) : buffer[j].TenantID \in done}}

\* What a replay that skips a line it cannot parse would do with the file.
RECURSIVE replayWALFileSkipping(_, _, _)
replayWALFileSkipping(data, n, failAt) ==
    IF Len(data) = 0
    THEN [handled |-> <<>>, err |-> FALSE, handlerFailed |-> FALSE, parseFailed |-> FALSE]
    ELSE IF tooLong(Head(data))
    THEN [handled |-> <<>>, err |-> TRUE, handlerFailed |-> FALSE, parseFailed |-> FALSE]
    ELSE IF ~parses(Head(data))
    THEN [replayWALFileSkipping(Tail(data), n, failAt)
             EXCEPT !.err = TRUE, !.parseFailed = TRUE]
    ELSE IF n + 1 = failAt
    THEN [handled |-> <<requestOf(Head(data))>>, err |-> TRUE, handlerFailed |-> TRUE,
          parseFailed |-> FALSE]
    ELSE LET rest == replayWALFileSkipping(Tail(data), n + 1, failAt)
         IN  [rest EXCEPT !.handled = <<requestOf(Head(data))>> \o @]

\* replayWALFile: the handler is called on the entries in turn, until a line is
\* too long for the scanner, a line does not parse, or the handler call number
\* failAt returns an error.
RECURSIVE replayWALFile(_, _, _)
replayWALFile(data, n, failAt) ==
    IF Len(data) = 0
    THEN [handled |-> <<>>, err |-> FALSE, handlerFailed |-> FALSE, parseFailed |-> FALSE]
    ELSE IF tooLong(Head(data))
    THEN [handled |-> <<>>, err |-> TRUE, handlerFailed |-> FALSE, parseFailed |-> FALSE]
    ELSE IF ~parses(Head(data))
    THEN [handled |-> <<>>, err |-> TRUE, handlerFailed |-> FALSE, parseFailed |-> TRUE]
    ELSE IF n + 1 = failAt
    THEN [handled |-> <<requestOf(Head(data))>>, err |-> TRUE, handlerFailed |-> TRUE,
          parseFailed |-> FALSE]
    ELSE LET rest == replayWALFile(Tail(data), n + 1, failAt)
         IN  [rest EXCEPT !.handled = <<requestOf(Head(data))>> \o @]

\* ReplayWAL over the files in the order of os.ReadDir; a replayed file is removed.
RECURSIVE replayWAL(_, _, _, _)
replayWAL(f, names, n, failAt) ==
    IF Len(names) = 0
    THEN [files |-> f, handled |-> <<>>, err |-> FALSE, handlerFailed |-> FALSE,
          parseFailed |-> FALSE, removed |-> {}, stoppedAt |-> <<>>, inLast |-> 0]
    ELSE LET r == replayWALFile(f[Head(names)], n, failAt)
         IN  IF r.err
             THEN [files |-> f, handled |-> r.handled, err |-> TRUE,
                   handlerFailed |-> r.handlerFailed, parseFailed |-> r.parseFailed,
                   removed |-> {}, stoppedAt |-> Head(names), inLast |-> Len(r.handled)]
             ELSE LET rest == replayWAL([k \in DOMAIN f \ {Head(names)} |-> f[k]],
                                        Tail(names), n + Len(r.handled), failAt)
                  IN  [rest EXCEPT !.handled = r.handled \o @,
                                   !.removed = @ \cup {Head(names)}]

(* Inputs of the WAL operations *)

\* A sample whose value is not a number.
SampleNaN == [Timestamp |-> HourTicks, Value |-> NaN]

MaxBufferSize == 2
MaxOpens == 2
MaxAppends == 2
MaxReplayAppends == 3
MaxBatchWrites == 3
MaxCrashes == 1
MaxHandlerErrors == 1

WalRequests ==
    { [TenantID |-> Str_a, Series |-> <<SeriesOf(MetricD, <<Sample1>>)>>],
      [TenantID |-> Str_a_slash, Series |-> <<SeriesOf(MetricD, <<Sample2>>)>>],
      [TenantID |-> Str_a, Series |-> <<SeriesOf(MetricA, <<Sample1, Sample2, Sample3>>)>>],
      [TenantID |-> Str_a, Series |-> <<SeriesOf(MetricD, <<SampleNaN>>)>>] }

MaxStoreWrites == 1

\* The store write of a flush that fails (0: none). A write after the first
\* fails only while the store has taken fewer than MaxStoreWrites batches.
failPoints(order) == IF Len(store) < MaxStoreWrites THEN 0..Len(order) ELSE 0..1

WalInit ==
    /\ files = <<>>
    /\ wal = Closed
    /\ bw = Closed
    /\ store = <<>>
    /\ submitted = {}
    /\ appendLog = <<>>
    /\ acked = {}
    /\ stored = {}
    /\ recovered = {}
    /\ afterCrash = FALSE
    /\ nOpens = 0
    /\ crashes = 0
    /\ handlerErrors = 0
    /\ walOp = [op |-> "none"]

\* NewWAL: wal-<Unix seconds>.log is created, or opened for appending.
NewWAL ==
    /\ ~wal.open
    /\ ~bw.open
    /\ nOpens < MaxOpens
    /\ nOpens' = nOpens + 1
    /\ LET name == walFileName(wallSeconds(now))
       IN  /\ files' = IF name \in DOMAIN files THEN files
                       ELSE [k \in DOMAIN files \cup {name} |->
                                IF k = name THEN <<>> ELSE files[k]]
           /\ wal' = [open |-> TRUE, name |-> name, writer |-> <<>>]
    /\ afterCrash' = FALSE
    /\ walOp' = [op |-> "NewWAL"]
    /\ UNCHANGED <<bw, store, submitted, appendLog, acked, stored, recovered, crashes, handlerErrors>>

NewBatchWriter ==
    /\ wal.open
    /\ ~bw.open
    /\ \E bufferSize \in 1..MaxBufferSize :
         bw' = [open |-> TRUE, buffer |-> <<>>, bufferSize |-> bufferSize,
                \* history: the requests for which Write returned nil, and
                \* the requests that entered the buffer, in their order
                accepted |-> {}, entered |-> <<>>]
    /\ walOp' = [op |-> "NewBatchWriter"]
    /\ UNCHANGED <<files, wal, store, submitted, appendLog, acked, stored, recovered, afterCrash, nOpens, crashes, handlerErrors>>

\* WAL.Append called on a WAL that serves no batch writer.
WALAppend(limit) ==
    /\ wal.open
    /\ ~bw.open
    /\ Cardinality(submitted) < limit
    /\ \E req \in WalRequests \ submitted :
         LET a == walAppend(wal, req, now)
         IN  /\ wal' = a.wal
             /\ submitted' = IF a.err THEN submitted ELSE submitted \cup {req}
             /\ appendLog' = IF a.err THEN appendLog ELSE Append(appendLog, req)
             /\ walOp' = [op |-> "Append", req |-> req, err |-> a.err]
    /\ UNCHANGED <<files, bw, store, acked, stored, recovered, afterCrash, nOpens, crashes, handlerErrors>>

WALFlush ==
    /\ wal.open
    /\ files' = flushedFiles(files, wal)
    /\ wal' = [wal EXCEPT !.writer = <<>>]
    /\ walOp' = [op |-> "Flush"]
    /\ UNCHANGED <<bw, store, submitted, appendLog, acked, stored, recovered, afterCrash, nOpens, crashes, handlerErrors>>

\* WAL.autoFlush: the timer fires, once a second.
WALAutoFlush ==
    /\ wal.open
    /\ files' = flushedFiles(files, wal)
    /\ wal' = [wal EXCEPT !.writer = <<>>]
    /\ walOp' = [op |-> "autoFlush"]
    /\ UNCHANGED <<bw, store, submitted, appendLog, acked, stored, recovered, afterCrash, nOpens, crashes, handlerErrors>>

WALClose ==
    /\ wal.open
    /\ files' = flushedFiles(files, wal)
    /\ wal' = Closed
    /\ walOp' = [op |-> "Close"]
    /\ UNCHANGED <<bw, store, submitted, appendLog, acked, stored, recovered, afterCrash, nOpens, crashes, handlerErrors>>

\* BatchWriter.Write: WAL append, buffer, and a flush when the buffer is full.
BWWrite(limit) ==
    /\ wal.open
    /\ bw.open
    /\ Cardinality(submitted) < limit
    /\ \E req \in WalRequests \ submitted :
         LET a == walAppend(wal, req, now)
             buffer == buffered(bw.buffer, req, a.err)
         IN  /\ wal' = a.wal
             /\ IF a.err
                THEN /\ bw' = [bw EXCEPT !.buffer = buffer]
                     /\ walOp' = [op |-> "Write", req |-> req, err |-> TRUE,
                                  appendFailed |-> TRUE, before |-> bw.buffer,
                                  flushOf |-> <<>>, wrote |-> 0]
                     /\ UNCHANGED <<store, submitted, appendLog, acked, stored>>
                ELSE /\ submitted' = submitted \cup {req}
                     /\ appendLog' = Append(appendLog, req)
                     /\ IF bufferFull(buffer, bw.bufferSize)
                        THEN \E order \in Orders(tenantsOf(buffer)) : \E failAt \in failPoints(order) :
                               LET r == flushLocked(buffer, store, order, failAt)
                               IN  /\ bw' = [bw EXCEPT !.buffer = r.buffer,
                                                       !.entered = Append(@, req),
                                                       !.accepted = IF r.err THEN @
                                                                    ELSE @ \cup {req}]
                                   /\ store' = r.store
                                   /\ stored' = stored \cup reached(buffer, r.done)
                                   /\ acked' = IF r.err THEN acked ELSE acked \cup {req}
                                   /\ walOp' = [op |-> "Write", req |-> req, err |-> r.err,
                                                appendFailed |-> FALSE, before |-> <<>>,
                                                flushOf |-> buffer,
                                                wrote |-> Len(r.store) - Len(store)]
                        ELSE /\ bw' = [bw EXCEPT !.buffer = buffer,
                                                 !.entered = Append(@, req),
                                                 !.accepted = @ \cup {req}]
                             /\ acked' = acked \cup {req}
                             /\ walOp' = [op |-> "Write", req |-> req, err |-> FALSE,
                                          appendFailed |-> FALSE, before |-> <<>>,
                                          flushOf |-> <<>>, wrote |-> 0]
                             /\ UNCHANGED <<store, stored>>
    /\ UNCHANGED <<files, recovered, afterCrash, nOpens, crashes, handlerErrors>>

BWFlush ==
    /\ bw.open
    /\ \E order \in Orders(tenantsOf(bw.buffer)) : \E failAt \in failPoints(order) :
         LET r == flushLocked(bw.buffer, store, order, failAt)
         IN  /\ bw' = [bw EXCEPT !.buffer = r.buffer]
             /\ store' = r.store
             /\ stored' = stored \cup reached(bw.buffer, r.done)
             /\ walOp' = [op |-> "BatchFlush", err |-> r.err, flushOf |-> bw.buffer,
                          wrote |-> Len(r.store) - Len(store)]
    /\ UNCHANGED <<files, wal, submitted, appendLog, acked, recovered, afterCrash, nOpens, crashes, handlerErrors>>

\* BatchWriter.autoFlush: the timer fires, every 100 ms; the error is dropped.
BWAutoFlush ==
    /\ bw.open
    /\ \E order \in Orders(tenantsOf(bw.buffer)) : \E failAt \in failPoints(order) :
         LET r == flushLocked(bw.buffer, store, order, failAt)
         IN  /\ bw' = [bw EXCEPT !.buffer = r.buffer]
             /\ store' = r.store
             /\ stored' = stored \cup reached(bw.buffer, r.done)
             /\ walOp' = [op |-> "BatchAutoFlush", err |-> r.err, flushOf |-> bw.buffer,
                          wrote |-> Len(r.store) - Len(store)]
    /\ UNCHANGED <<files, wal, submitted, appendLog, acked, recovered, afterCrash, nOpens, crashes, handlerErrors>>

\* BatchWriter.Close: the timer is stopped and the buffer flushed a last time.
BWClose ==
    /\ bw.open
    /\ \E order \in Orders(tenantsOf(bw.buffer)) : \E failAt \in failPoints(order) :
         LET r == flushLocked(bw.buffer, store, order, failAt)
         IN  /\ bw' = Closed
             /\ store' = r.store
             /\ stored' = stored \cup reached(bw.buffer, r.done)
             /\ walOp' = [op |-> "BatchClose", err |-> r.err, buffer |-> r.buffer,
                          accepted |-> bw.accepted, before |-> Len(bw.buffer),
                          entered |-> bw.entered,
                          flushOf |-> bw.buffer, wrote |-> Len(r.store) - Len(store)]
    /\ UNCHANGED <<files, wal, submitted, appendLog, acked, recovered, afterCrash, nOpens, crashes, handlerErrors>>

\* The process dies: what only memory held is gone, the files and the store stay.
Crash ==
    /\ wal.open
    /\ crashes < MaxCrashes
    /\ crashes' = crashes + 1
    /\ wal' = Closed
    /\ bw' = Closed
    /\ afterCrash' = TRUE
    /\ walOp' = [op |-> "Crash"]
    /\ \E torn \in (IF Len(wal.writer) > 0 THEN BOOLEAN ELSE {FALSE}) :
         files' = IF torn THEN tornFiles(files, wal) ELSE files
    /\ UNCHANGED <<store, submitted, appendLog, acked, stored, recovered, nOpens, handlerErrors>>

\* ReplayWAL at startup, before a WAL is opened.
ReplayWAL ==
    /\ ~wal.open
    /\ ~bw.open
    /\ \E failAt \in (IF handlerErrors < MaxHandlerErrors THEN 0..1 ELSE {0}) :
         LET r == replayWAL(files, readDir(files), 0, failAt)
             passed == IF r.handlerFailed THEN SubSeq(r.handled, 1, Len(r.handled) - 1)
                       ELSE r.handled
         IN  /\ files' = r.files
             /\ recovered' = recovered \cup SeqToSet(passed)
             /\ walOp' = [op |-> "ReplayWAL", handled |-> r.handled, err |-> r.err,
                          handlerFailed |-> r.handlerFailed, afterCrash |-> afterCrash,
                          parseFailed |-> r.parseFailed, removed |-> r.removed,
                          stoppedAt |-> r.stoppedAt, inLast |-> r.inLast,
                          again |-> SeqToSet(r.handled) \cap recovered]
             /\ handlerErrors' = IF r.handlerFailed THEN handlerErrors + 1 ELSE handlerErrors
    /\ UNCHANGED <<wal, bw, store, submitted, appendLog, acked, stored, afterCrash, nOpens, crashes>>

\* A second passes between two runs of the process.
WalTick ==
    /\ ~wal.open
    /\ now + TicksPerSecond <= MaxNow
    /\ now' = now + TicksPerSecond
    /\ UNCHANGED <<capacity, ttl, cache, lru, qcOp, recency, putTime>>

-----------------------------------------------------------------------------
(* Auto-flush timers *)

\* The two components that arm a timer with time.AfterFunc.
Components == {"WAL", "BatchWriter"}

MaxFires == 2

\* After NewWAL and NewBatchWriter: the timer is armed, no callback runs.
\* callback: where the goroutine of autoFlush stands ("none": it does not run);
\* close: "open", "stopped" (Close has stopped the timer) or "closed" (Close
\* has returned); lateFire, lateFlush: history of what happened after that.
TimerInit ==
    timers = [c \in Components |->
                [armed |-> TRUE, callback |-> "none", close |-> "open", fires |-> 0,
                 lateFire |-> FALSE, lateFlush |-> FALSE]]

\* No timers under observation.
TimerOff == TimerInit

\* The runtime starts autoFlush in a goroutine of its own; the timer is spent.
TimerFires(c) ==
    /\ timers[c].armed
    /\ timers[c].fires < MaxFires
    /\ timers' = [timers EXCEPT ![c].armed = FALSE,
                                ![c].callback = "flush",
                                ![c].fires = @ + 1,
                                ![c].lateFire = @ \/ (timers[c].close = "closed")]

\* autoFlush: w.Flush() or bw.Flush(), under the lock of the component.
AutoFlushFlush(c) ==
    /\ timers[c].callback = "flush"
    /\ timers' = [timers EXCEPT ![c].callback = "reset",
                                ![c].lateFlush = @ \/ (timers[c].close = "closed")]

\* The runtime starts autoFlush, as TimerFires does, any number of times.
TimerFiresAgain(c) ==
    /\ timers[c].armed
    /\ timers' = [timers EXCEPT ![c].armed = FALSE,
                                ![c].callback = "flush",
                                ![c].lateFire = @ \/ (timers[c].close = "closed")]

\* An autoFlush that returns without arming the timer again.
AutoFlushNoReset(c) ==
    /\ timers[c].callback = "reset"
    /\ timers' = [timers EXCEPT ![c].callback = "none"]

\* autoFlush: Lock, flushTimer.Reset, Unlock. Reset arms the timer again,
\* whether or not it was stopped.
AutoFlushReset(c) ==
    /\ timers[c].callback = "reset"
    /\ timers' = [timers EXCEPT ![c].callback = "none", ![c].armed = TRUE]

\* WAL.Close: under w.mu, flushTimer.Stop, the last flush, file.Close.
WALCloseTimer ==
    /\ timers["WAL"].close = "open"
    /\ timers' = [timers EXCEPT !["WAL"].armed = FALSE, !["WAL"].close = "closed"]

\* BatchWriter.Close: flushTimer.Stop and close(bw.ctx), outside the lock.
BWCloseStop ==
    /\ timers["BatchWriter"].close = "open"
    /\ timers' = [timers EXCEPT !["BatchWriter"].armed = FALSE,
                                !["BatchWriter"].close = "stopped"]

\* BatchWriter.Close: the final bw.Flush(), and the return.
BWCloseFlush ==
    /\ timers["BatchWriter"].close = "stopped"
    /\ timers' = [timers EXCEPT !["BatchWriter"].close = "closed"]

-----------------------------------------------------------------------------
(* Locking: the calls of the engine, step by step *)

Locks == {"storage", "qc", "cs", "wal", "bw"}

\* A reader that enters whatever the state of the lock.
canRLockAnyway(m) == TRUE

\* RWMutex.RLock returns when no writer holds the lock or waits for it.
canRLock(m) == ~m.writer /\ ~m.pending

\* RWMutex.Lock announces itself when no other writer holds the lock.
canAnnounce(m) == ~m.writer /\ ~m.pending

\* RWMutex.Lock returns when the readers that were in have left.
canLock(m) == m.pending /\ m.readers = 0

MaxBlocks == 3

Writer == "Write"
Readers == {"Query1", "Query2"}

\* The blocks of the request: one series with samples in n different hours.
blocksOf(n) == 1..n

\* No call in progress, nothing stored.
ConcOff ==
    /\ mu = [l \in Locks |-> Unlocked]
    /\ goroutines = <<>>
    /\ engine = [indexed |-> FALSE, blocks |-> {}]
    /\ staged = 0

\* One goroutine that will call Storage.Write and two that will call Storage.Query.
AtomicInit ==
    /\ mu = [l \in Locks |-> Unlocked]
    /\ goroutines = [g \in {Writer} \cup Readers |->
                        IF g = Writer THEN [pc |-> "idle", n |-> 0, err |-> FALSE]
                        ELSE [pc |-> "idle", during |-> FALSE, next |-> 1, seen |-> {}]]
    /\ engine = [indexed |-> FALSE, blocks |-> {}]
    /\ staged = 0

\* The Write has stored some of its blocks and not yet all of them.
midWrite ==
    /\ goroutines[Writer].pc = "writeBlock"
    /\ engine.blocks # {}

\* Storage.Write is called with a request of n blocks.
WriteCall ==
    /\ goroutines[Writer].pc = "idle"
    /\ \E n \in 2..MaxBlocks :
         goroutines' = [goroutines EXCEPT ![Writer].pc = "Lock", ![Writer].n = n]
    /\ UNCHANGED <<mu, engine, staged>>

\* s.mu.Lock(), first half: the writer announces itself.
WriteLockAnnounce ==
    /\ goroutines[Writer].pc = "Lock"
    /\ canAnnounce(mu["storage"])
    /\ mu' = [mu EXCEPT !["storage"].pending = TRUE]
    /\ goroutines' = [goroutines EXCEPT ![Writer].pc = "LockWait"]
    /\ UNCHANGED <<engine, staged>>

\* s.mu.Lock(), second half: the readers have left and the writer is in.
WriteLock ==
    /\ goroutines[Writer].pc = "LockWait"
    /\ canLock(mu["storage"])
    /\ mu' = [mu EXCEPT !["storage"].pending = FALSE, !["storage"].writer = TRUE]
    /\ goroutines' = [goroutines EXCEPT ![Writer].pc = "AddSeries"]
    /\ UNCHANGED <<engine, staged>>

\* s.index.AddSeries(&series.Metric)
WriteAddSeries ==
    /\ goroutines[Writer].pc = "AddSeries"
    /\ engine' = [engine EXCEPT !.indexed = TRUE]
    /\ goroutines' = [goroutines EXCEPT ![Writer].pc = "writeBlock"]
    /\ UNCHANGED <<mu, staged>>

\* One pass of the loop over the blocks, in the order of the map range:
\* writeBlock stores the block, or fails and Write returns its error.
WriteBlockStep ==
    /\ goroutines[Writer].pc = "writeBlock"
    /\ LET n == goroutines[Writer].n
       IN  \E block \in blocksOf(n) \ engine.blocks, fails \in BOOLEAN :
             IF fails
             THEN /\ goroutines' = [goroutines EXCEPT ![Writer].pc = "Unlock",
                                                       ![Writer].err = TRUE]
                  /\ UNCHANGED <<engine, staged>>
             ELSE /\ engine' = [engine EXCEPT !.blocks = @ \cup {block}]
                  /\ goroutines' =
                        IF engine.blocks \cup {block} = blocksOf(n)
                        THEN [goroutines EXCEPT ![Writer].pc = "Unlock",
                                                ![Writer].err = FALSE]
                        ELSE goroutines
    /\ UNCHANGED <<mu, staged>>

\* The deferred s.mu.Unlock(), and Write returns.
WriteUnlock ==
    /\ goroutines[Writer].pc = "Unlock"
    /\ mu' = [mu EXCEPT !["storage"].writer = FALSE]
    /\ goroutines' = [goroutines EXCEPT ![Writer].pc = "returned"]
    /\ UNCHANGED <<engine, staged>>

\* Storage.Query is called for a time range that covers every block.
\* during: history, the Write had stored a part of its blocks at that time.
QueryCall(q) ==
    /\ goroutines[q].pc = "idle"
    /\ goroutines' = [goroutines EXCEPT ![q].pc = "RLock", ![q].during = midWrite]
    /\ UNCHANGED <<mu, engine, staged>>

\* s.mu.RLock()
QueryRLock(q) ==
    /\ goroutines[q].pc = "RLock"
    /\ canRLock(mu["storage"])
    /\ mu' = [mu EXCEPT !["storage"].readers = @ + 1]
    /\ goroutines' = [goroutines EXCEPT ![q].pc = "FindSeries"]
    /\ UNCHANGED <<engine, staged>>

\* s.index.FindSeries: a series that is not indexed has no blocks to read.
QueryFindSeries(q) ==
    /\ goroutines[q].pc = "FindSeries"
    /\ goroutines' = [goroutines EXCEPT
                         ![q].pc = IF engine.indexed THEN "readBlock" ELSE "RUnlock"]
    /\ UNCHANGED <<mu, engine, staged>>

\* One pass of the loop over the block times, in ascending order: readBlock,
\* and a block that is not there is skipped.
QueryReadBlock(q) ==
    /\ goroutines[q].pc = "readBlock"
    /\ LET block == goroutines[q].next
       IN  goroutines' = [goroutines EXCEPT
                            ![q].seen = @ \cup ({block} \cap engine.blocks),
                            ![q].next = block + 1,
                            ![q].pc = IF block = MaxBlocks THEN "RUnlock" ELSE "readBlock"]
    /\ UNCHANGED <<mu, engine, staged>>

\* The deferred s.mu.RUnlock(), and Query returns what it has read.
QueryRUnlock(q) ==
    /\ goroutines[q].pc = "RUnlock"
    /\ mu' = [mu EXCEPT !["storage"].readers = @ - 1]
    /\ goroutines' = [goroutines EXCEPT ![q].pc = "returned"]
    /\ UNCHANGED <<engine, staged>>

(* Locking: the calls of the BatchWriter and of CachedStorage, step by step *)

\* The locks that belong to QueryCache, WAL and BatchWriter.
PrivateLocks == {"qc", "wal", "bw"}

LockBufferSize == 2
MaxStaged == 3
MaxTenants == 2

BatchCallers == {"BatchWrite", "BatchFlush"}
QueryCallers == {"CachedQuery"}

\* sync.Mutex.Lock returns when nobody holds the mutex.
free(m) == ~m.writer

\* The goroutine g takes or gives back the mutex l.
lock(l) == [mu EXCEPT ![l].writer = TRUE]
unlock(l) == [mu EXCEPT ![l].writer = FALSE]

\* A BatchWriter of bufferSize LockBufferSize over a WAL, and a CachedStorage:
\* no call in progress, no lock held.
LocksInit ==
    /\ mu = [l \in Locks |-> Unlocked]
    /\ goroutines = [g \in BatchCallers \cup QueryCallers |->
                        [pc |-> "idle", holds |-> {}, left |-> 0]]
    /\ engine = [indexed |-> FALSE, blocks |-> {}]
    /\ staged = 0

\* BatchWriter.Write and BatchWriter.Flush: bw.mu.Lock()
BatchLock(g) ==
    /\ goroutines[g].pc = "idle"
    /\ free(mu["bw"])
    /\ g = "BatchWrite" => staged < MaxStaged
    /\ mu' = lock("bw")
    /\ goroutines' = [goroutines EXCEPT
                         ![g].pc = IF g = "BatchWrite" THEN "Append" ELSE "flushLocked",
                         ![g].holds = @ \cup {"bw"}]
    /\ UNCHANGED <<engine, staged>>

\* BatchWriter.Write: bw.wal.Append(req), which begins with w.mu.Lock()
AppendLock(g) ==
    /\ goroutines[g].pc = "Append"
    /\ free(mu["wal"])
    /\ mu' = lock("wal")
    /\ goroutines' = [goroutines EXCEPT ![g].pc = "Appending", ![g].holds = @ \cup {"wal"}]
    /\ UNCHANGED <<engine, staged>>

\* WAL.Append writes the entry or fails, and its deferred w.mu.Unlock() runs;
\* on an error Write returns.
AppendUnlock(g) ==
    /\ goroutines[g].pc = "Appending"
    /\ mu' = unlock("wal")
    /\ \E fails \in BOOLEAN :
         goroutines' = [goroutines EXCEPT ![g].pc = IF fails THEN "Unlock" ELSE "Buffer",
                                          ![g].holds = @ \ {"wal"}]
    /\ UNCHANGED <<engine, staged>>

\* BatchWriter.Write: the request is added to the buffer, and a full buffer
\* is flushed.
BatchBuffer(g) ==
    /\ goroutines[g].pc = "Buffer"
    /\ staged' = staged + 1
    /\ goroutines' = [goroutines EXCEPT
                         ![g].pc = IF bufferFull([i \in 1..(staged + 1) |-> i], LockBufferSize)
                                   THEN "flushLocked" ELSE "Unlock"]
    /\ UNCHANGED <<mu, engine>>

\* flushLocked: nothing to do for an empty buffer; otherwise the requests are
\* grouped into one batch for each of their tenants.
FlushLockedBegin(g) ==
    /\ goroutines[g].pc = "flushLocked"
    /\ IF staged = 0
       THEN goroutines' = [goroutines EXCEPT ![g].pc = "Unlock"]
       ELSE \E tenants \in 1..MaxTenants :
              /\ tenants <= staged
              /\ goroutines' = [goroutines EXCEPT ![g].pc = "writeDirect",
                                                   ![g].left = tenants]
    /\ UNCHANGED <<mu, engine, staged>>

\* flushLocked: bw.storage.writeDirect(batchReq) is called.
WriteDirectCall(g) ==
    /\ goroutines[g].pc = "writeDirect"
    /\ goroutines' = [goroutines EXCEPT ![g].pc = "inStore"]
    /\ UNCHANGED <<mu, engine, staged>>

\* writeDirect returns: an error ends the flush; after the last batch the
\* buffer is cleared.
WriteDirectReturn(g) ==
    /\ goroutines[g].pc = "inStore"
    /\ g \in BatchCallers
    /\ \E fails \in BOOLEAN :
         IF fails
         THEN /\ goroutines' = [goroutines EXCEPT ![g].pc = "Unlock", ![g].left = 0]
              /\ UNCHANGED staged
         ELSE IF goroutines[g].left = 1
         THEN /\ goroutines' = [goroutines EXCEPT ![g].pc = "Unlock", ![g].left = 0]
              /\ staged' = 0
         ELSE /\ goroutines' = [goroutines EXCEPT ![g].pc = "writeDirect", ![g].left = @ - 1]
              /\ UNCHANGED staged
    /\ UNCHANGED <<mu, engine>>

\* The deferred bw.mu.Unlock(), and Write or Flush returns.
BatchUnlock(g) ==
    /\ goroutines[g].pc = "Unlock"
    /\ mu' = unlock("bw")
    /\ goroutines' = [goroutines EXCEPT ![g].pc = "idle", ![g].holds = @ \ {"bw"}]
    /\ UNCHANGED <<engine, staged>>

\* CachedStorage.Query: cs.cache.Get(req), which begins with qc.mu.Lock()
CacheGetLock(g) ==
    /\ goroutines[g].pc = "idle"
    /\ g \in QueryCallers
    /\ free(mu["qc"])
    /\ mu' = lock("qc")
    /\ goroutines' = [goroutines EXCEPT ![g].pc = "Get", ![g].holds = @ \cup {"qc"}]
    /\ UNCHANGED <<engine, staged>>

\* QueryCache.Get returns a hit or a miss, and its deferred qc.mu.Unlock() runs.
CacheGetUnlock(g) ==
    /\ goroutines[g].pc = "Get"
    /\ mu' = unlock("qc")
    /\ \E hit \in BOOLEAN :
         goroutines' = [goroutines EXCEPT ![g].pc = IF hit THEN "hits" ELSE "misses",
                                          ![g].holds = @ \ {"qc"}]
    /\ UNCHANGED <<engine, staged>>

\* cs.mu.Lock() before cs.hits++ or cs.misses++
CountLock(g) ==
    /\ goroutines[g].pc \in {"hits", "misses"}
    /\ free(mu["cs"])
    /\ mu' = lock("cs")
    /\ goroutines' = [goroutines EXCEPT
                         ![g].pc = IF goroutines[g].pc = "hits" THEN "hit" ELSE "miss",
                         ![g].holds = @ \cup {"cs"}]
    /\ UNCHANGED <<engine, staged>>

\* cs.mu.Unlock(): a hit returns the result, a miss goes on to the storage.
CountUnlock(g) ==
    /\ goroutines[g].pc \in {"hit", "miss"}
    /\ mu' = unlock("cs")
    /\ goroutines' = [goroutines EXCEPT
                         ![g].pc = IF goroutines[g].pc = "hit" THEN "idle" ELSE "Query",
                         ![g].holds = @ \ {"cs"}]
    /\ UNCHANGED <<engine, staged>>

\* CachedStorage.Query, on a miss: s.Query(ctx, req) is called.
StoreQueryCall(g) ==
    /\ goroutines[g].pc = "Query"
    /\ goroutines' = [goroutines EXCEPT ![g].pc = "inStore"]
    /\ UNCHANGED <<mu, engine, staged>>

\* s.Query returns: an error is returned, a result goes to the cache.
StoreQueryReturn(g) ==
    /\ goroutines[g].pc = "inStore"
    /\ g \in QueryCallers
    /\ \E fails \in BOOLEAN :
         goroutines' = [goroutines EXCEPT ![g].pc = IF fails THEN "idle" ELSE "Put"]
    /\ UNCHANGED <<mu, engine, staged>>

\* cs.cache.Put(req, result), which begins with qc.mu.Lock()
CachePutLock(g) ==
    /\ goroutines[g].pc = "Put"
    /\ free(mu["qc"])
    /\ mu' = lock("qc")
    /\ goroutines' = [goroutines EXCEPT ![g].pc = "Putting", ![g].holds = @ \cup {"qc"}]
    /\ UNCHANGED <<engine, staged>>

\* QueryCache.Put stores the result, its deferred qc.mu.Unlock() runs, and
\* CachedStorage.Query returns.
CachePutUnlock(g) ==
    /\ goroutines[g].pc = "Putting"
    /\ mu' = unlock("qc")
    /\ goroutines' = [goroutines EXCEPT ![g].pc = "idle", ![g].holds = @ \ {"qc"}]
    /\ UNCHANGED <<engine, staged>>

-----------------------------------------------------------------------------
(* Specifications *)

IndexIdle == UNCHANGED idxVars
StorageIdle == UNCHANGED stVars
CacheIdle == UNCHANGED qcVars
CachedIdle == UNCHANGED csVars
WalIdle == UNCHANGED walVars
CodecIdle == UNCHANGED codecVars
TimerIdle == UNCHANGED timerVars
ConcIdle == UNCHANGED concVars

IndexNext ==
    \/ AddSeries(IndexMetrics) /\ StorageIdle /\ CacheIdle /\ CachedIdle /\ WalIdle /\ CodecIdle /\ TimerIdle /\ ConcIdle
    \/ FindSeries /\ StorageIdle /\ CacheIdle /\ CachedIdle /\ WalIdle /\ CodecIdle /\ TimerIdle /\ ConcIdle
    \/ UpdateTimeRange /\ StorageIdle /\ CacheIdle /\ CachedIdle /\ WalIdle /\ CodecIdle /\ TimerIdle /\ ConcIdle

\* The index under metrics of which one carries a __name__ label.
NameLabelNext ==
    \/ AddSeries(NameLabelMetrics) /\ StorageIdle /\ CacheIdle /\ CachedIdle /\ WalIdle /\ CodecIdle /\ TimerIdle /\ ConcIdle
    \/ FindSeries /\ StorageIdle /\ CacheIdle /\ CachedIdle /\ WalIdle /\ CodecIdle /\ TimerIdle /\ ConcIdle
    \/ UpdateTimeRange /\ StorageIdle /\ CacheIdle /\ CachedIdle /\ WalIdle /\ CodecIdle /\ TimerIdle /\ ConcIdle

\* generateKey on its own.
BlockKeyNext ==
    \/ GenerateKey /\ CacheIdle /\ CachedIdle /\ WalIdle /\ CodecIdle /\ TimerIdle /\ ConcIdle

StorageNext ==
    \/ Write /\ CacheIdle /\ CachedIdle /\ WalIdle /\ CodecIdle /\ TimerIdle /\ ConcIdle
    \/ Query /\ CacheIdle /\ CachedIdle /\ WalIdle /\ CodecIdle /\ TimerIdle /\ ConcIdle

CacheNext ==
    \/ Get(CacheRequests) /\ qcRunning /\ IndexIdle /\ StorageIdle /\ CachedIdle /\ WalIdle /\ CodecIdle /\ TimerIdle /\ ConcIdle
    \/ Put(CacheRequests) /\ qcRunning /\ IndexIdle /\ StorageIdle /\ CachedIdle /\ WalIdle /\ CodecIdle /\ TimerIdle /\ ConcIdle
    \/ Clear /\ qcRunning /\ IndexIdle /\ StorageIdle /\ CachedIdle /\ WalIdle /\ CodecIdle /\ TimerIdle /\ ConcIdle
    \/ Tick /\ qcRunning /\ IndexIdle /\ StorageIdle /\ CachedIdle /\ WalIdle /\ CodecIdle /\ TimerIdle /\ ConcIdle
    \/ Stats /\ qcRunning /\ IndexIdle /\ StorageIdle /\ CachedIdle /\ WalIdle /\ CodecIdle /\ TimerIdle /\ ConcIdle

\* The cache under requests that differ in each part of the key.
KeyNext ==
    \/ Get(KeyRequests) /\ IndexIdle /\ StorageIdle /\ CachedIdle /\ WalIdle /\ CodecIdle /\ TimerIdle /\ ConcIdle
    \/ Put(KeyRequests) /\ IndexIdle /\ StorageIdle /\ CachedIdle /\ WalIdle /\ CodecIdle /\ TimerIdle /\ ConcIdle
    \/ Tick /\ IndexIdle /\ StorageIdle /\ CachedIdle /\ WalIdle /\ CodecIdle /\ TimerIdle /\ ConcIdle

\* A cache that is not in use.
CacheOff ==
    /\ capacity = 0
    /\ ttl = 0
    /\ cache = <<>>
    /\ lru = <<>>
    /\ now = 0
    /\ qcOp = [op |-> "none"]
    /\ recency = <<>>
    /\ putTime = <<>>

CachedNext ==
    \/ \E p \in Callers : CSWriteClear(p) /\ WalIdle /\ CodecIdle /\ TimerIdle /\ ConcIdle
    \/ \E p \in Callers : CSWriteStore(p) /\ WalIdle /\ CodecIdle /\ TimerIdle /\ ConcIdle
    \/ \E p \in Callers : CSWriteReturn(p) /\ WalIdle /\ CodecIdle /\ TimerIdle /\ ConcIdle
    \/ \E p \in Callers : CSQueryGet(p) /\ WalIdle /\ CodecIdle /\ TimerIdle /\ ConcIdle
    \/ \E p \in Callers : CSQueryStore(p) /\ WalIdle /\ CodecIdle /\ TimerIdle /\ ConcIdle
    \/ \E p \in Callers : CSQueryPut(p) /\ WalIdle /\ CodecIdle /\ TimerIdle /\ ConcIdle

\* A step of the WAL or of the batch writer leaves the rest alone.
OnlyWal == IndexIdle /\ StorageIdle /\ CacheIdle /\ CachedIdle /\ CodecIdle /\ TimerIdle /\ ConcIdle

WalNext ==
    \/ NewWAL /\ OnlyWal
    \/ NewBatchWriter /\ OnlyWal
    \/ WALAppend(MaxAppends) /\ OnlyWal
    \/ WALFlush /\ OnlyWal
    \/ WALAutoFlush /\ OnlyWal
    \/ WALClose /\ OnlyWal
    \/ BWWrite(MaxAppends) /\ OnlyWal
    \/ BWFlush /\ OnlyWal
    \/ BWAutoFlush /\ OnlyWal
    \/ BWClose /\ OnlyWal
    \/ Crash /\ OnlyWal
    \/ ReplayWAL /\ OnlyWal
    \/ WalTick /\ IndexIdle /\ StorageIdle /\ CachedIdle /\ WalIdle /\ CodecIdle /\ TimerIdle /\ ConcIdle

\* A WAL that is written without a batch writer, and replayed.
ReplayNext ==
    \/ NewWAL /\ OnlyWal
    \/ WALAppend(MaxReplayAppends) /\ OnlyWal
    \/ WALFlush /\ OnlyWal
    \/ WALAutoFlush /\ OnlyWal
    \/ WALClose /\ OnlyWal
    \/ Crash /\ OnlyWal
    \/ ReplayWAL /\ OnlyWal
    \/ WalTick /\ IndexIdle /\ StorageIdle /\ CachedIdle /\ WalIdle /\ CodecIdle /\ TimerIdle /\ ConcIdle

\* A batch writer in front of the store, in a process that does not crash.
BatchNext ==
    \/ NewWAL /\ OnlyWal
    \/ NewBatchWriter /\ OnlyWal
    \/ BWWrite(MaxBatchWrites) /\ OnlyWal
    \/ BWFlush /\ OnlyWal
    \/ BWAutoFlush /\ OnlyWal
    \/ BWClose /\ OnlyWal

\* No WAL and no batch writer.
WalOff == WalInit

\* No CachedStorage in front of the engine.
CachedOff ==
    /\ calls = <<>>
    /\ hits = 0
    /\ misses = 0
    /\ nCalls = 0
    /\ commits = 0
    /\ returned = 0
    /\ computedAt = <<>>
    /\ csOp = [op |-> "none"]

\* A call of the compressor leaves the rest alone.
OnlyCodec == IndexIdle /\ StorageIdle /\ CacheIdle /\ CachedIdle /\ WalIdle /\ TimerIdle /\ ConcIdle

\* No compressor in use.
CodecOff == CodecInit

CodecNext ==
    \/ CompressTimestampsCall /\ OnlyCodec
    \/ DecompressTimestampsCall /\ OnlyCodec
    \/ CompressValuesCall /\ OnlyCodec
    \/ DecompressValuesCall /\ OnlyCodec

\* A storage created with NewStorage(nil).
StorageDefault == StorageInit /\ cfg = DefaultConfig

InitIndex == IndexInit /\ StorageDefault /\ CacheOff /\ CachedOff /\ WalOff /\ CodecOff /\ TimerOff /\ ConcOff

SpecIndex == InitIndex /\ [][IndexNext]_vars

InitBlockKey == IndexInit /\ StorageDefault /\ CacheOff /\ CachedOff /\ WalOff /\ CodecOff /\ TimerOff /\ ConcOff

SpecBlockKey == InitBlockKey /\ [][BlockKeyNext]_vars

InitNameLabel == IndexInit /\ StorageDefault /\ CacheOff /\ CachedOff /\ WalOff /\ CodecOff /\ TimerOff /\ ConcOff

SpecNameLabel == InitNameLabel /\ [][NameLabelNext]_vars

InitStorage == IndexInit /\ StorageInit /\ CacheOff /\ CachedOff /\ WalOff /\ CodecOff /\ TimerOff /\ ConcOff

SpecStorage == InitStorage /\ [][StorageNext]_vars

InitCache == IndexInit /\ StorageDefault /\ CacheInit /\ CachedOff /\ WalOff /\ CodecOff /\ TimerOff /\ ConcOff

SpecCache == InitCache /\ [][CacheNext]_vars

\* A cache of at most one entry: one Put and one Get tell two keys apart.
InitKey == InitCache /\ capacity <= 1

SpecKey == InitKey /\ [][KeyNext]_vars

InitWAL == IndexInit /\ StorageDefault /\ CacheOff /\ CachedOff /\ WalInit /\ CodecOff /\ TimerOff /\ ConcOff

SpecWAL == InitWAL /\ [][WalNext]_vars

InitBatch == IndexInit /\ StorageDefault /\ CacheOff /\ CachedOff /\ WalInit /\ CodecOff /\ TimerOff /\ ConcOff

SpecBatch == InitBatch /\ [][BatchNext]_vars

InitReplay == IndexInit /\ StorageDefault /\ CacheOff /\ CachedOff /\ WalInit /\ CodecOff /\ TimerOff /\ ConcOff

SpecReplay == InitReplay /\ [][ReplayNext]_vars

InitCached == IndexInit /\ StorageDefault /\ CacheInit /\ CachedInit /\ WalOff /\ CodecOff /\ TimerOff /\ ConcOff

SpecCached == InitCached /\ [][CachedNext]_vars

\* A step of a timer, of its callback or of Close leaves the rest alone.
OnlyTimer == IndexIdle /\ StorageIdle /\ CacheIdle /\ CachedIdle /\ WalIdle /\ CodecIdle /\ ConcIdle

TimerNext ==
    \/ \E c \in Components : TimerFires(c) /\ OnlyTimer
    \/ \E c \in Components : AutoFlushFlush(c) /\ OnlyTimer
    \/ \E c \in Components : AutoFlushReset(c) /\ OnlyTimer
    \/ WALCloseTimer /\ OnlyTimer
    \/ BWCloseStop /\ OnlyTimer
    \/ BWCloseFlush /\ OnlyTimer

InitTimer == IndexInit /\ StorageDefault /\ CacheOff /\ CachedOff /\ WalOff /\ CodecOff /\ TimerInit /\ ConcOff

SpecTimer == InitTimer /\ [][TimerNext]_vars

\* A step of a call leaves everything but the locks and the calls alone.
OnlyConc == IndexIdle /\ StorageIdle /\ CacheIdle /\ CachedIdle /\ WalIdle /\ CodecIdle /\ TimerIdle

AtomicNext ==
    \/ WriteCall /\ OnlyConc
    \/ WriteLockAnnounce /\ OnlyConc
    \/ WriteLock /\ OnlyConc
    \/ WriteAddSeries /\ OnlyConc
    \/ WriteBlockStep /\ OnlyConc
    \/ WriteUnlock /\ OnlyConc
    \/ \E q \in Readers : QueryCall(q) /\ OnlyConc
    \/ \E q \in Readers : QueryRLock(q) /\ OnlyConc
    \/ \E q \in Readers : QueryFindSeries(q) /\ OnlyConc
    \/ \E q \in Readers : QueryReadBlock(q) /\ OnlyConc
    \/ \E q \in Readers : QueryRUnlock(q) /\ OnlyConc

LocksNext ==
    \/ \E g \in BatchCallers : BatchLock(g) /\ OnlyConc
    \/ \E g \in BatchCallers : AppendLock(g) /\ OnlyConc
    \/ \E g \in BatchCallers : AppendUnlock(g) /\ OnlyConc
    \/ \E g \in BatchCallers : BatchBuffer(g) /\ OnlyConc
    \/ \E g \in BatchCallers : FlushLockedBegin(g) /\ OnlyConc
    \/ \E g \in BatchCallers : WriteDirectCall(g) /\ OnlyConc
    \/ \E g \in BatchCallers : WriteDirectReturn(g) /\ OnlyConc
    \/ \E g \in BatchCallers : BatchUnlock(g) /\ OnlyConc
    \/ \E g \in QueryCallers : CacheGetLock(g) /\ OnlyConc
    \/ \E g \in QueryCallers : CacheGetUnlock(g) /\ OnlyConc
    \/ \E g \in QueryCallers : CountLock(g) /\ OnlyConc
    \/ \E g \in QueryCallers : CountUnlock(g) /\ OnlyConc
    \/ \E g \in QueryCallers : StoreQueryCall(g) /\ OnlyConc
    \/ \E g \in QueryCallers : StoreQueryReturn(g) /\ OnlyConc
    \/ \E g \in QueryCallers : CachePutLock(g) /\ OnlyConc
    \/ \E g \in QueryCallers : CachePutUnlock(g) /\ OnlyConc

InitLocks == IndexInit /\ StorageDefault /\ CacheOff /\ CachedOff /\ WalOff /\ CodecOff /\ TimerOff /\ LocksInit

SpecLocks == InitLocks /\ [][LocksNext]_vars

InitAtomic == IndexInit /\ StorageDefault /\ CacheOff /\ CachedOff /\ WalOff /\ CodecOff /\ TimerOff /\ AtomicInit

SpecAtomic == InitAtomic /\ [][AtomicNext]_vars

-----------------------------------------------------------------------------
(* The lock of the query cache under Stats *)

MaxStatsCalls == 2

\* The goroutines that call QueryCache.Stats (one of them through
\* CachedStorage.CacheStats), QueryCache.Put and QueryCache.Size.
StatsCallers == {"Stats", "CacheStats"}
PutCaller == "Put"
SizeCaller == "Size"

\* A QueryCache inside a CachedStorage: no call in progress, no lock held.
StatsInit ==
    /\ mu = [l \in Locks |-> Unlocked]
    /\ goroutines = [g \in StatsCallers \cup {PutCaller, SizeCaller} |->
                        [pc |-> "idle", holds |-> {}, left |-> MaxStatsCalls]]
    /\ engine = [indexed |-> FALSE, blocks |-> {}]
    /\ staged = 0

\* The runtime ends the process: no goroutine runs any more.
killed == [g \in DOMAIN goroutines |-> [goroutines[g] EXCEPT !.pc = "dead"]]

\* CachedStorage.CacheStats: cs.mu.RLock()
CacheStatsRLock(g) ==
    /\ g = "CacheStats"
    /\ goroutines[g].pc = "idle"
    /\ goroutines[g].left > 0
    /\ canRLock(mu["cs"])
    /\ mu' = [mu EXCEPT !["cs"] = rwRLock(@)]
    /\ goroutines' = [goroutines EXCEPT ![g].pc = "Stats", ![g].holds = @ \cup {"cs"}]
    /\ UNCHANGED <<engine, staged>>

\* QueryCache.Stats: qc.mu.RLock()
StatsRLock(g) ==
    /\ \/ g = "Stats" /\ goroutines[g].pc = "idle" /\ goroutines[g].left > 0
       \/ g = "CacheStats" /\ goroutines[g].pc = "Stats"
    /\ canRLock(mu["qc"])
    /\ mu' = [mu EXCEPT !["qc"] = rwRLock(@)]
    /\ goroutines' = [goroutines EXCEPT ![g].pc = "counting", ![g].holds = @ \cup {"qc"}]
    /\ UNCHANGED <<engine, staged>>

\* QueryCache.Stats counts and returns: its deferred qc.mu.Unlock() runs on the
\* lock it holds for reading. The read hold is never given back.
StatsDeferredUnlock(g) ==
    /\ goroutines[g].pc = "counting"
    /\ LET u == rwUnlock(mu["qc"])
       IN  IF u.fatal
           THEN /\ goroutines' = killed
                /\ UNCHANGED mu
           ELSE /\ mu' = [mu EXCEPT !["qc"] = u.mu]
                /\ goroutines' = [goroutines EXCEPT
                        ![g].pc = IF g = "CacheStats" THEN "CacheStatsReturn" ELSE "idle",
                        ![g].left = IF g = "CacheStats" THEN @ ELSE @ - 1]
    /\ UNCHANGED <<engine, staged>>

\* CachedStorage.CacheStats returns: its deferred cs.mu.RUnlock() runs.
CacheStatsRUnlock(g) ==
    /\ goroutines[g].pc = "CacheStatsReturn"
    /\ mu' = [mu EXCEPT !["cs"] = rwRUnlock(@)]
    /\ goroutines' = [goroutines EXCEPT ![g].pc = "idle", ![g].left = @ - 1,
                                        ![g].holds = @ \ {"cs"}]
    /\ UNCHANGED <<engine, staged>>

\* QueryCache.Put (as Get and Clear): qc.mu.Lock() announces the writer
PutLockAnnounce(g) ==
    /\ g = PutCaller
    /\ goroutines[g].pc = "idle"
    /\ goroutines[g].left > 0
    /\ canAnnounce(mu["qc"])
    /\ mu' = [mu EXCEPT !["qc"].pending = TRUE]
    /\ goroutines' = [goroutines EXCEPT ![g].pc = "Lock"]
    /\ UNCHANGED <<engine, staged>>

\* qc.mu.Lock() returns
PutLock(g) ==
    /\ goroutines[g].pc = "Lock"
    /\ canLock(mu["qc"])
    /\ mu' = [mu EXCEPT !["qc"].pending = FALSE, !["qc"].writer = TRUE]
    /\ goroutines' = [goroutines EXCEPT ![g].pc = "Put", ![g].holds = @ \cup {"qc"}]
    /\ UNCHANGED <<engine, staged>>

\* QueryCache.Put returns: its deferred qc.mu.Unlock() runs.
PutUnlock(g) ==
    /\ goroutines[g].pc = "Put"
    /\ mu' = [mu EXCEPT !["qc"] = rwUnlock(@).mu]
    /\ goroutines' = [goroutines EXCEPT ![g].pc = "idle", ![g].left = @ - 1,
                                        ![g].holds = @ \ {"qc"}]
    /\ UNCHANGED <<engine, staged>>

\* QueryCache.Size: qc.mu.RLock()
SizeRLock(g) ==
    /\ g = SizeCaller
    /\ goroutines[g].pc = "idle"
    /\ goroutines[g].left > 0
    /\ canRLock(mu["qc"])
    /\ mu' = [mu EXCEPT !["qc"] = rwRLock(@)]
    /\ goroutines' = [goroutines EXCEPT ![g].pc = "Size", ![g].holds = @ \cup {"qc"}]
    /\ UNCHANGED <<engine, staged>>

\* QueryCache.Size returns: its deferred qc.mu.RUnlock() runs.
SizeRUnlock(g) ==
    /\ goroutines[g].pc = "Size"
    /\ mu' = [mu EXCEPT !["qc"] = rwRUnlock(@)]
    /\ goroutines' = [goroutines EXCEPT ![g].pc = "idle", ![g].left = @ - 1,
                                        ![g].holds = @ \ {"qc"}]
    /\ UNCHANGED <<engine, staged>>

StatsNext ==
    \/ \E g \in StatsCallers : CacheStatsRLock(g) /\ OnlyConc
    \/ \E g \in StatsCallers : StatsRLock(g) /\ OnlyConc
    \/ \E g \in StatsCallers : StatsDeferredUnlock(g) /\ OnlyConc
    \/ \E g \in StatsCallers : CacheStatsRUnlock(g) /\ OnlyConc
    \/ PutLockAnnounce(PutCaller) /\ OnlyConc
    \/ PutLock(PutCaller) /\ OnlyConc
    \/ PutUnlock(PutCaller) /\ OnlyConc
    \/ SizeRLock(SizeCaller) /\ OnlyConc
    \/ SizeRUnlock(SizeCaller) /\ OnlyConc

InitStats == IndexInit /\ StorageDefault /\ CacheOff /\ CachedOff /\ WalOff /\ CodecOff /\ TimerOff /\ StatsInit

SpecStats == InitStats /\ [][StatsNext]_vars

MaxTickWrites == 2

\* The steps of the BatchWriter's timer, each with what it leaves alone.
\* BatchWriter.autoFlush calls bw.Flush() and drops its error.
TickFires == TimerFiresAgain("BatchWriter") /\ OnlyTimer
TickFlush ==
    /\ AutoFlushFlush("BatchWriter")
    /\ BWAutoFlush
    /\ IndexIdle /\ StorageIdle /\ CacheIdle /\ CachedIdle /\ CodecIdle /\ ConcIdle
TickReset == AutoFlushReset("BatchWriter") /\ OnlyTimer

\* A batch writer that is written to and never closed or flushed by a call:
\* only its timer flushes a buffer that is not full.
TickNext ==
    \/ NewWAL /\ OnlyWal
    \/ NewBatchWriter /\ OnlyWal
    \/ BWWrite(MaxTickWrites) /\ OnlyWal
    \/ TickFires
    \/ TickFlush
    \/ TickReset

\* The runtime fires an armed timer and runs its callback to the end, and the
\* store does not fail for ever: a flush that is tried again and again succeeds.
TickFairness ==
    /\ WF_vars(TickFires)
    /\ WF_vars(TickFlush)
    /\ WF_vars(TickReset)
    /\ SF_vars(TickFlush /\ ~walOp'.err)

InitTick == IndexInit /\ StorageDefault /\ CacheOff /\ CachedOff /\ WalInit /\ CodecOff /\ TimerInit /\ ConcOff

SpecTick == InitTick /\ [][TickNext]_vars /\ TickFairness

InitCodec == IndexInit /\ StorageDefault /\ CacheOff /\ CachedOff /\ WalOff /\ CodecInit /\ TimerOff /\ ConcOff

SpecCodec == InitCodec /\ [][CodecNext]_vars

-----------------------------------------------------------------------------
(* Claims about the storage engine *)

\* The samples a query result holds for a metric.
resultSamples(result, metric) ==
    IF \E i \in 1..Len(result) : result[i].Metric = metric
    THEN result[CHOOSE i \in 1..Len(result) : result[i].Metric = metric].Samples
    ELSE <<>>

\* The samples written under a tenant for a metric that lie strictly inside a range.
writtenInRange(tenantID, metric, startTime, endTime) ==
    {w[3] : w \in {x \in written : /\ x[1] = tenantID
                                   /\ x[2] = metric
                                   /\ x[3].Timestamp > startTime
                                   /\ x[3].Timestamp < endTime}}

\* Exactly one series entry was written for the metric under the tenant, by a
\* Write that succeeded: the store held no earlier block of the series.
writtenOnce(tenantID, metric) ==
    /\ <<tenantID, metric>> \in DOMAIN touched
    /\ touched[<<tenantID, metric>>].entries = 1
    /\ ~touched[<<tenantID, metric>>].failed

\* C1: after a successful Write of series S under tenant T on a store with no
\* earlier block of S, a Query of T for S's metric name returns S with exactly
\* the written samples whose timestamp lies strictly between start and end,
\* whatever the timestamps, also ones finer than a second.
C1_QueryReturnsWrittenSamples ==
    stOp.op = "Query" =>
      \A metric \in Metrics :
        (metric.Name = stOp.req.Query /\ writtenOnce(stOp.req.TenantID, metric)) =>
          LET got == resultSamples(stOp.result, metric)
              want == writtenInRange(stOp.req.TenantID, metric,
                                     stOp.req.StartTime, stOp.req.EndTime)
          IN  SeqToSet(got) = want /\ Len(got) = Cardinality(want)

\* The sample as the store keeps it: its timestamp cut to whole seconds.
asStored(sample) ==
    [Timestamp |-> TimeOfUnix(Unix(sample.Timestamp)), Value |-> sample.Value]

\* C2: tenant isolation: every sample a Query for tenant T returns was written
\* by a Write with tenant T for that series; a series written only under other
\* tenants does not appear in the result.
C2_TenantIsolation ==
    stOp.op = "Query" =>
      \A i \in 1..Len(stOp.result) :
        /\ Len(stOp.result[i].Samples) > 0
        /\ \A j \in 1..Len(stOp.result[i].Samples) :
             \E w \in written :
               /\ w[1] = stOp.req.TenantID
               /\ w[2] = stOp.result[i].Metric
               /\ asStored(w[3]) = stOp.result[i].Samples[j]

\* A query that returns a series of which another tenant wrote a sample that
\* the result does not hold.
C2_Witness ==
    /\ stOp.op = "Query"
    /\ Len(stOp.result) > 0
    /\ \E w \in written :
         /\ w[1] # stOp.req.TenantID
         /\ w[2] = stOp.result[1].Metric
         /\ asStored(w[3]).Timestamp > stOp.req.StartTime
         /\ asStored(w[3]).Timestamp < stOp.req.EndTime
         /\ \A j \in 1..Len(stOp.result[1].Samples) :
              stOp.result[1].Samples[j] # asStored(w[3])

-----------------------------------------------------------------------------
(* Claims about the series index *)

\* C9: AddSeries called again with a metric equal in name and label set, the
\* labels ranged over in any order, returns the ID returned the first time and
\* changes neither SeriesCount, nor the recorded time bounds, nor the inverted
\* label index.
C9_AddSeriesIdempotent ==
    [][(idxOp'.op = "AddSeries" /\ idxOp'.again) =>
         /\ idxOp'.id = firstID[idxOp'.metric]
         /\ Cardinality(DOMAIN series') = SeriesCount
         /\ series' = series
         /\ labelIndex' = labelIndex]_vars

\* A second AddSeries of a metric with two labels whose time bounds are set.
C9_Witness ==
    /\ idxOp.op = "AddSeries"
    /\ idxOp.again
    /\ Cardinality(DOMAIN idxOp.metric.Labels) = 2
    /\ idxOp.id = firstID[idxOp.metric]
    /\ series[idxOp.id].MinTime # 0
    /\ series[idxOp.id].MaxTime # 0
    /\ SeriesCount >= 2

\* The series carries the label: the metric name counts as label __name__.
carries(metric, name, value) ==
    \/ name = NameLabel /\ metric.Name = value
    \/ name \in DOMAIN metric.Labels /\ metric.Labels[name] = value

matching(labelSelectors) ==
    {id \in DOMAIN series :
        \A name \in DOMAIN labelSelectors :
            carries(series[id].Metric, name, labelSelectors[name])}

\* C10: FindSeries returns exactly the IDs of the indexed series that carry
\* every selector's label with the required value, nothing when a selector
\* matches nothing, and the IDs of all indexed series for an empty selector map.
C10_FindSeriesExact ==
    idxOp.op = "FindSeries" =>
      /\ SeqToSet(idxOp.result) = matching(idxOp.labelSelectors)
      /\ DOMAIN idxOp.labelSelectors = {} => SeqToSet(idxOp.result) = DOMAIN series

\* A search on two selectors over three series that finds some and not all.
C10_Witness ==
    /\ idxOp.op = "FindSeries"
    /\ Cardinality(DOMAIN idxOp.labelSelectors) = 2
    /\ SeriesCount = 3
    /\ Len(idxOp.result) > 0
    /\ SeqToSet(idxOp.result) = matching(idxOp.labelSelectors)
    /\ SeqToSet(idxOp.result) # DOMAIN series

-----------------------------------------------------------------------------
(* Claims about the query cache *)

\* C6: Get returns an entry only while its age since the last Put of that key
\* is at most the TTL; once the age exceeds the TTL, Get reports a miss and
\* removes the entry.
C6_GetHonoursTTL ==
    qcOp.op = "Get" =>
      /\ qcOp.hit => (qcOp.cached /\ qcOp.age <= ttl)
      /\ (qcOp.cached /\ qcOp.age <= ttl) => qcOp.hit
      /\ (qcOp.cached /\ qcOp.age > ttl) => (~qcOp.hit /\ qcOp.key \notin DOMAIN cache)

\* A Get of an entry older than the TTL, and the entry is gone.
C6_Witness ==
    /\ qcOp.op = "Get"
    /\ qcOp.cached
    /\ qcOp.age > ttl
    /\ ttl > 0
    /\ ~qcOp.hit
    /\ qcOp.key \notin DOMAIN cache

\* The entries a Put leaves out of the cache.
evictedBy(op) == (DOMAIN op.cacheBefore \cup {op.key}) \ DOMAIN cache

\* The entry whose most recent Get-hit or Put is the oldest, the Put counted.
leastRecent(op) == IF Len(op.before) = 0 THEN op.key ELSE op.before[Len(op.before)]

overCapacity(op) == ~op.cached /\ Cardinality(DOMAIN op.cacheBefore) + 1 > capacity

\* C7: a Put of a new key that takes the entry count over the capacity evicts
\* exactly one entry, the one whose most recent Get-hit or Put is the oldest,
\* and every other entry stays retrievable.
C7_EvictsLeastRecentlyUsed ==
    (qcOp.op = "Put" /\ overCapacity(qcOp)) =>
      /\ evictedBy(qcOp) = {leastRecent(qcOp)}
      /\ \A k \in DOMAIN qcOp.cacheBefore \ {leastRecent(qcOp)} :
           k \in DOMAIN cache /\ cache[k] = qcOp.cacheBefore[k]
      /\ qcOp.key # leastRecent(qcOp) =>
           (qcOp.key \in DOMAIN cache /\ cache[qcOp.key].result = qcOp.result)

\* An eviction whose victim is not the entry that was put first: a Get-hit
\* or a second Put had made the first entry the more recent one.
C7_Witness ==
    /\ qcOp.op = "Put"
    /\ overCapacity(qcOp)
    /\ capacity >= 2
    /\ evictedBy(qcOp) = {leastRecent(qcOp)}
    /\ \E k \in DOMAIN cache \ {qcOp.key} :
         qcOp.cacheBefore[k].timestamp < qcOp.cacheBefore[leastRecent(qcOp)].timestamp

\* C8: Size never exceeds the configured capacity, a capacity of 0 included.
C8_SizeWithinCapacity == Size <= capacity

\* A cache filled to its capacity by a Put.
C8_Witness ==
    /\ qcOp.op = "Put"
    /\ capacity > 0
    /\ Size = capacity
    /\ overCapacity(qcOp)

-----------------------------------------------------------------------------
(* Claims about CachedStorage *)

\* C5: with Write and Query calls running concurrently, once a
\* CachedStorage.Write has returned nil, no later CachedStorage.Query returns a
\* cached result that was computed from the store's contents before that Write.
C5_NoStaleHit ==
    (csOp.op = "Query" /\ csOp.hit) => csOp.computedAt >= csOp.returned

-----------------------------------------------------------------------------
(* Claims about the write-ahead log *)

\* C3: with a WAL configured, once BatchWriter.Write has returned nil for a
\* request, a crash at any later moment loses nothing: the request has reached
\* the underlying store, or ReplayWAL passes it to its handler.
C3_DurableBeforeAck ==
    (walOp.op = "ReplayWAL" /\ walOp.afterCrash /\ handlerErrors = 0) =>
      acked \subseteq (stored \cup recovered)

noRepeat(seq) == \A i, j \in 1..Len(seq) : i # j => seq[i] # seq[j]

\* C4: after requests are appended to a WAL, flushed and the WAL closed,
\* ReplayWAL calls the handler exactly once per appended request, with the same
\* tenant and series, and removes every replayed file, so that a ReplayWAL that
\* follows at once calls the handler zero times.
C4_ReplayExactlyOnce ==
    (walOp.op = "ReplayWAL" /\ crashes = 0 /\ handlerErrors = 0) =>
      /\ ~walOp.err
      /\ noRepeat(walOp.handled)
      /\ walOp.again = {}
      /\ recovered = submitted
      /\ files = <<>>

-----------------------------------------------------------------------------
(* Claims about the time bounds of a series *)

\* C11: over any sequence of UpdateTimeRange calls on a series, once a bound
\* has been set the recorded minTime never increases and the recorded maxTime
\* never decreases, for all timestamps, 0 and negative ones included.
C11_BoundsOnlyWiden ==
    (idxOp.op = "UpdateTimeRange" /\ ~idxOp.err /\ idxOp.wasSet) =>
      /\ series[idxOp.id].MinTime <= idxOp.oldMin
      /\ series[idxOp.id].MaxTime >= idxOp.oldMax


\* The series of the index that carries the metric.
indexed(metric) == {id \in DOMAIN series : series[id].Metric = metric}

\* The recorded bounds of the series cover the timestamps of the samples.
covers(meta, samples) ==
    \A j \in 1..Len(samples) :
        /\ meta.MinTime <= Unix(samples[j].Timestamp)
        /\ meta.MaxTime >= Unix(samples[j].Timestamp)

\* C12: after a successful Storage.Write the index metadata of every series of
\* the request covers the samples written: minTime is at most the smallest and
\* maxTime at least the largest sample timestamp of that series in the request.
C12_WriteCoversSamples ==
    (stOp.op = "Write" /\ ~stOp.err) =>
        \A i \in 1..Len(stOp.req.Series) :
            /\ indexed(stOp.req.Series[i].Metric) # {}
            /\ \A id \in indexed(stOp.req.Series[i].Metric) :
                   covers(series[id], stOp.req.Series[i].Samples)

-----------------------------------------------------------------------------
(* Claims about the compressor *)

\* The last call decoded the buffer with the count it was encoded from.
decodedWithOwnCount(op) ==
    /\ codecOp.op = op
    /\ Len(encoded.input) > 0
    /\ codecOp.count = Len(encoded.input)

\* C13: for every non-empty sequence ts of integers of the word, in any order
\* and with differences that overflow the word,
\* DecompressTimestamps(CompressTimestamps(ts), len(ts)) returns ts.
C13_TimestampsRoundTrip ==
    decodedWithOwnCount("DecompressTimestamps") =>
        /\ ~codecOp.res.err
        /\ ~codecOp.res.panic
        /\ codecOp.res.out = encoded.input

\* A descending step and an ascending one, each larger than the word holds.
C13_Witness ==
    /\ decodedWithOwnCount("DecompressTimestamps")
    /\ encoded.input = <<MaxWord, MinWord, MaxWord>>
    /\ codecOp.res.out = <<MaxWord, MinWord, MaxWord>>

\* C14: for every non-empty sequence vs of bit patterns of the word,
\* DecompressValues(CompressValues(vs), len(vs)) returns vs bit for bit.
C14_ValuesRoundTrip ==
    decodedWithOwnCount("DecompressValues") =>
        /\ ~codecOp.res.err
        /\ ~codecOp.res.panic
        /\ codecOp.res.out = encoded.input

C14_Witness ==
    /\ decodedWithOwnCount("DecompressValues")
    /\ encoded.input = <<Pow2(WordBits) - 1, 1, Pow2(WordBits - 1)>>
    /\ codecOp.res.out = <<Pow2(WordBits) - 1, 1, Pow2(WordBits - 1)>>

\* The words a buffer holds once it is unframed.
wordsOf(data) == IF Len(data) = 0 THEN 0 ELSE Len(DecodeAll(data).out)

decompressCalled ==
    /\ codecOp.op \in {"DecompressTimestamps", "DecompressValues"}
    /\ codecOp.count > 0

\* C15: DecompressTimestamps and DecompressValues return an error whenever the
\* buffer holds fewer words than the declared count, empty data with a positive
\* count included; they never return a shorter or padded sequence without error.
C15_ShortBufferIsAnError ==
    (decompressCalled /\ wordsOf(encoded.data) < codecOp.count) => codecOp.res.err

\* C16: decoding with a count that differs from the count the buffer was
\* encoded from is reported as an error, for a larger and a smaller count alike.
C16_CountMismatchIsAnError ==
    (decompressCalled /\ codecOp.count # Len(encoded.input)) => codecOp.res.err

-----------------------------------------------------------------------------
(* Claims about the batch writer and the replay *)

\* C17: if the WAL append fails inside BatchWriter.Write, Write returns an
\* error, the request is not added to the buffer, and the buffer is the same as
\* before the call.
C17_FailedAppendLeavesBuffer ==
    (walOp.op = "Write" /\ walOp.appendFailed) =>
        /\ walOp.err
        /\ bw.buffer = walOp.before
        /\ \A i \in 1..Len(bw.buffer) : bw.buffer[i] # walOp.req

\* The append fails while another request waits in the buffer.
C17_Witness ==
    /\ walOp.op = "Write"
    /\ walOp.appendFailed
    /\ marshalFails(walOp.req)
    /\ Len(bw.buffer) = 1

\* The place of a request in the order of the Append calls.
appendedAt(req) == CHOOSE i \in 1..Len(appendLog) : appendLog[i] = req

\* C18: ReplayWAL calls the handler on the entries in the order of the WAL
\* files and, within a file, in the order the entries were appended: an entry
\* is never handled before an entry that was appended earlier.
C18_ReplayInAppendOrder ==
    walOp.op = "ReplayWAL" =>
        \A i, j \in 1..Len(walOp.handled) :
            i < j => appendedAt(walOp.handled[i]) < appendedAt(walOp.handled[j])

\* The place of the first line of the file that does not parse.
firstBad(data) == CHOOSE k \in 1..Len(data) : ~parses(data[k]) /\ \A i \in 1..(k - 1) : parses(data[i])

\* The last n elements of the sequence.
lastOf(seq, n) == SubSeq(seq, Len(seq) - n + 1, Len(seq))

\* C19: when an entry of a WAL file fails to parse, ReplayWAL returns an error,
\* handles no further entry of that file, leaves that file on disk, and the
\* files that were fully replayed before it stay deleted.
C19_ParseFailureStopsFile ==
    (walOp.op = "ReplayWAL" /\ walOp.parseFailed) =>
        /\ walOp.err
        /\ walOp.stoppedAt \in DOMAIN files
        /\ LET data == files[walOp.stoppedAt]
           IN  /\ walOp.inLast = firstBad(data) - 1
               /\ lastOf(walOp.handled, walOp.inLast)
                     = [i \in 1..walOp.inLast |-> requestOf(data[i])]
        /\ walOp.removed \cap DOMAIN files = {}

\* A file has been replayed with its entry and removed; the first line of the
\* next file does not parse.
C19_Witness ==
    /\ walOp.op = "ReplayWAL"
    /\ walOp.parseFailed
    /\ walOp.removed # {}
    /\ Len(walOp.handled) > walOp.inLast
    /\ walOp.stoppedAt \in DOMAIN files

\* The series of the request lie, in their order, in a batch the store took
\* for the tenant of the request.
RECURSIVE holds(_, _)
holds(batch, part) ==
    IF Len(part) = 0 THEN TRUE
    ELSE IF Len(batch) < Len(part) THEN FALSE
    ELSE SubSeq(batch, 1, Len(part)) = part \/ holds(Tail(batch), part)

inStore(req) ==
    \E i \in 1..Len(store) :
        store[i].TenantID = req.TenantID /\ holds(store[i].Series, req.Series)

\* C20: when BatchWriter.Close returns nil, every request that Write accepted
\* before Close was called has been written to the underlying store, and the
\* buffer is empty.
C20_CloseFlushesAll ==
    (walOp.op = "BatchClose" /\ ~walOp.err) =>
        /\ \A req \in walOp.accepted : inStore(req)
        /\ walOp.buffer = <<>>

\* Close writes out a buffer that an earlier flush had failed to write.
C20_Witness ==
    /\ walOp.op = "BatchClose"
    /\ ~walOp.err
    /\ walOp.before = 2
    /\ Cardinality(walOp.accepted) = 1
    /\ \A req \in walOp.accepted : inStore(req)

-----------------------------------------------------------------------------
(* Claims about the timers *)

\* C21: after WAL.Close or BatchWriter.Close has returned, the auto-flush timer
\* of that component never fires again and no flush runs afterwards, for every
\* interleaving of Close with a timer callback, a callback that had already
\* started when Close was called included.
C21_NoTickAfterClose ==
    \A c \in Components : ~timers[c].lateFire /\ ~timers[c].lateFlush

\* The last call flushed a buffer that was not empty.
flushed ==
    /\ walOp.op \in {"Write", "BatchFlush", "BatchAutoFlush", "BatchClose"}
    /\ Len(walOp.flushOf) > 0

\* The writes the store took from the last call.
flushWrites == lastOf(store, walOp.wrote)

\* The buffer the last call left behind.
bufferLeft == IF walOp.op = "BatchClose" THEN walOp.buffer ELSE bw.buffer

\* The series of the requests of the tenant, request after request.
RECURSIVE flatten(_)
flatten(lists) == IF Len(lists) = 0 THEN <<>> ELSE Head(lists) \o flatten(Tail(lists))

ofTenant(buffer, tenantID) ==
    LET own(req) == req.TenantID = tenantID
        reqs == SelectSeq(buffer, own)
    IN  flatten([i \in 1..Len(reqs) |-> reqs[i].Series])

enteredLog ==
    IF bw.open THEN bw.entered
    ELSE IF walOp.op = "BatchClose" THEN walOp.entered
    ELSE <<>>

\* The series the store has taken for the tenant, in the order they arrived.
arrived(tenantID) ==
    LET own(batch) == batch.TenantID = tenantID
        batches == SelectSeq(store, own)
    IN  flatten([i \in 1..Len(batches) |-> batches[i].Series])

\* The series of the request arrive at place k of the sequence.
arrivesAt(seq, req, k) ==
    /\ k + Len(req.Series) - 1 <= Len(seq)
    /\ SubSeq(seq, k, k + Len(req.Series) - 1) = req.Series

\* C23: within the batch writer, the series of requests for the same tenant
\* reach the underlying store in the order the requests were buffered, across
\* any number of Write calls and flushes: wherever a request arrives, every
\* request of its tenant that was buffered before it has arrived earlier.
C23_TenantOrderKept ==
    \A i, j \in 1..Len(enteredLog) :
        (i < j /\ enteredLog[i].TenantID = enteredLog[j].TenantID) =>
            LET seq == arrived(enteredLog[i].TenantID)
            IN  \A k \in 1..Len(seq) :
                    arrivesAt(seq, enteredLog[j], k) =>
                        \E h \in 1..(k - 1) : arrivesAt(seq, enteredLog[i], h)

\* Two requests of one tenant, a request of another tenant between them, and a
\* flush that had to be repeated: the store has taken the first one twice.
C23_Witness ==
    /\ Len(enteredLog) = 3
    /\ enteredLog[1].TenantID = enteredLog[3].TenantID
    /\ enteredLog[2].TenantID # enteredLog[1].TenantID
    /\ LET seq == arrived(enteredLog[1].TenantID)
       IN  /\ \E k \in 1..Len(seq) : arrivesAt(seq, enteredLog[3], k)
           /\ Cardinality({h \in 1..Len(seq) : arrivesAt(seq, enteredLog[1], h)}) >= 2

\* The last call was a Write whose request entered the buffer.
writeBuffered == walOp.op = "Write" /\ ~walOp.appendFailed

\* C24: when a BatchWriter.Write brings the buffer length to the configured
\* bufferSize, that same Write call performs a flush before it returns, and it
\* returns the flush's error when the flush fails.
C24_FullBufferFlushesInWrite ==
    writeBuffered =>
        /\ walOp.flushOf = <<>> =>
              /\ Len(bw.buffer) < bw.bufferSize
              /\ ~walOp.err
        /\ walOp.flushOf # <<>> =>
              /\ walOp.flushOf[Len(walOp.flushOf)] = walOp.req
              /\ walOp.err <=> (walOp.wrote < Cardinality(tenantsOf(walOp.flushOf)))

\* The Write that fills the buffer returns the error of its flush.
C24_Witness ==
    /\ writeBuffered
    /\ Len(walOp.flushOf) = bw.bufferSize
    /\ walOp.err
    /\ walOp.wrote < Cardinality(tenantsOf(walOp.flushOf))

-----------------------------------------------------------------------------
(* Claims about the keys of the query cache *)

\* The last call was a Put for a key that was in the cache.
putAgain == qcOp.op = "Put" /\ qcOp.cached

\* C25: QueryCache.Put for a key already in the cache, expired or not, replaces
\* its result, resets its insertion time to the time of the Put and makes it
\* the most recently used entry, without changing the number of entries and
\* without evicting any entry.
C25_PutRefreshesInPlace ==
    putAgain =>
        /\ qcOp.key \in DOMAIN cache
        /\ cache[qcOp.key] = [result |-> qcOp.result, timestamp |-> qcOp.at]
        /\ Head(lru) = qcOp.key
        /\ DOMAIN cache = DOMAIN qcOp.cacheBefore
        /\ Len(lru) = Cardinality(DOMAIN qcOp.cacheBefore)
        /\ \A k \in DOMAIN cache \ {qcOp.key} : cache[k] = qcOp.cacheBefore[k]

\* An expired entry that was not the most recently used gets another result.
C25_Witness ==
    /\ putAgain
    /\ qcOp.at - qcOp.cacheBefore[qcOp.key].timestamp > ttl
    /\ qcOp.cacheBefore[qcOp.key].result # qcOp.result
    /\ Len(qcOp.before) = 2
    /\ Head(qcOp.before) # qcOp.key

\* Two requests with the same tenant ID, query text, and start and end second.
agree(a, b) ==
    /\ a.TenantID = b.TenantID
    /\ a.Query = b.Query
    /\ Unix(a.StartTime) = Unix(b.StartTime)
    /\ Unix(a.EndTime) = Unix(b.EndTime)

\* The last call was a Get right after a Put into an empty cache that can hold
\* an entry, before the entry expired: the cache held the entry of that Put only.
getAfterPut ==
    /\ qcOp.op = "Get"
    /\ qcOp.after.op = "Put"
    /\ qcOp.after.first
    /\ capacity > 0
    /\ qcOp.at - qcOp.after.at <= ttl

\* C26: two query requests address the same cache entry exactly when they agree
\* on tenant ID, query text, and start and end time truncated to whole seconds:
\* a Put under one is a Get hit under the other when all four agree, and a miss
\* when any of them differs.
C26_SameEntryIffAgree ==
    getAfterPut => (qcOp.hit <=> agree(qcOp.req, qcOp.after.req))

-----------------------------------------------------------------------------
(* Claims about the storage engine and its write-ahead log *)

\* The last call was a Storage.Write that wrote every block of a request with
\* samples to the store.
wroteBlocks == stOp.op = "Write" /\ ~stOp.err /\ samplesOfRequest(stOp.req) # {}

\* The request was given to WAL.Append.
inWAL(req) == \E i \in 1..Len(appendLog) : appendLog[i] = req

\* The request was given to BatchWriter.Write and put into its buffer.
inBatchWriter(req) == \E i \in 1..Len(enteredLog) : enteredLog[i] = req

\* C27: when the storage is created with EnableWAL true, every request given
\* to Storage.Write is appended to the WAL and buffered by the Batch Writer
\* before any of its blocks reaches the underlying store.
C27_WALBeforeStore ==
    (cfg.EnableWAL /\ wroteBlocks) => (inWAL(stOp.req) /\ inBatchWriter(stOp.req))

\* C30: Storage.Query swallows only the missing-block case: a readBlock that
\* fails for another reason makes Query return the error.
C30_OnlyMissingSwallowed ==
    stOp.op = "Query" =>
        ((\E r \in stOp.reads : r.err /\ ~r.missing) => stOp.err)

-----------------------------------------------------------------------------
(* Claims about locking *)

\* The Write call has returned nil.
writeSucceeded == goroutines[Writer].pc = "returned" /\ ~goroutines[Writer].err

\* The Query calls that have returned.
queriesReturned == {q \in Readers : goroutines[q].pc = "returned"}

\* C28: a Storage.Query that runs concurrently with a successful multi-block
\* Storage.Write sees none of that Write's blocks or all of them.
C28_QuerySeesNoneOrAll ==
    writeSucceeded =>
        \A q \in queriesReturned :
            \/ goroutines[q].seen = {}
            \/ goroutines[q].seen = blocksOf(goroutines[Writer].n)

\* A Query called while the Write had stored a part of its blocks saw them all,
\* and a Query that was in first saw none.
C28_Witness ==
    /\ writeSucceeded
    /\ goroutines[Writer].n = MaxBlocks
    /\ \E q \in queriesReturned :
         goroutines[q].during /\ goroutines[q].seen = blocksOf(MaxBlocks)
    /\ \E q \in queriesReturned : goroutines[q].seen = {}

\* The goroutines that are inside a call into the underlying store.
callingStore == {g \in DOMAIN goroutines : goroutines[g].pc = "inStore"}

\* C29: no private lock of QueryCache, WAL or BatchWriter is held by a caller
\* while its call into the underlying store is in progress: neither during the
\* per-tenant writes of flushLocked nor during CachedStorage.Query on a miss.
C29_NoLockAcrossStoreCall ==
    \A g \in callingStore : goroutines[g].holds \cap PrivateLocks = {}

-----------------------------------------------------------------------------
(* Claims about failures of the store during a Write *)

\* The ID under which the index holds the metric.
idOf(metric) == CHOOSE id \in DOMAIN series : series[id].Metric = metric

\* The blocks a Write call sets out to store, in the order of its loops: for
\* each series entry of the request, its samples grouped by the hour.
RECURSIVE planned(_, _, _)
planned(tenantID, seriesList, rev) ==
    IF Len(seriesList) = 0 THEN <<>>
    ELSE LET s == Head(seriesList)
             blocks == groupSamplesByBlock(s.Samples)
             order == rangeInts(DOMAIN blocks, rev)
         IN  [i \in 1..Len(order) |->
                 [seriesID |-> idOf(s.Metric), blockTime |-> order[i],
                  kv |-> writeBlock(tenantID, idOf(s.Metric), order[i], blocks[order[i]])]]
             \o planned(tenantID, Tail(seriesList), rev)

\* The database after the blocks have been stored one after the other.
RECURSIVE storedOver(_, _)
storedOver(dbv, blocks) ==
    IF Len(blocks) = 0 THEN dbv
    ELSE storedOver(dbSet(dbv, Head(blocks).kv.key, Head(blocks).kv.value), Tail(blocks))

planOf(op) == planned(op.req.TenantID, op.req.Series, op.rev)

\* The last call was a Write during which the store failed to take a block.
storeFailed ==
    /\ stOp.op = "Write"
    /\ stOp.failAt \in 1..Len(planOf(stOp))

\* C31: when the underlying store fails while Storage.Write stores a block,
\* Write returns an error and writes no further block of the request, and
\* every block stored earlier in the same call remains readable by Query: the
\* database holds what it held before and the earlier blocks, and no other.
C31_FailureStopsWriteKeepsBlocks ==
    storeFailed =>
        LET plan == planOf(stOp)
            earlier == SubSeq(plan, 1, stOp.failAt - 1)
        IN  /\ stOp.err
            /\ db = storedOver(stOp.dbBefore, earlier)
            /\ \A i \in 1..Len(earlier) :
                 ~readBlock(db, stOp.req.TenantID, earlier[i].seriesID,
                            earlier[i].blockTime, {}).err

\* The store failed at the second of three blocks: the first is there, the
\* third was never written.
C31_Witness ==
    /\ storeFailed
    /\ stOp.err
    /\ Len(planOf(stOp)) = 3
    /\ stOp.failAt = 2
    /\ planOf(stOp)[1].kv.key \in DOMAIN db
    /\ planOf(stOp)[3].kv.key \notin DOMAIN db

-----------------------------------------------------------------------------
(* Claims about the timer-driven flush *)

\* BatchWriter.Write has returned nil for the request.
accepted(req) == bw.open /\ req \in bw.accepted

\* The last call was an autoFlush whose flush failed.
tickFailed == walOp.op = "BatchAutoFlush" /\ walOp.err

\* C32: every request accepted by BatchWriter.Write is eventually written to
\* the underlying store by the timer-driven flush alone, with no explicit
\* Flush call, provided the writer is not closed and store writes eventually
\* succeed; and a tick whose flush fails does not stop later ticks: the timer
\* is armed again after it.
C32_TimerFlushesEverything ==
    /\ \A req \in WalRequests : accepted(req) ~> (req \in stored)
    /\ tickFailed ~> timers["BatchWriter"].armed

\* A tick has written out a buffer of which an earlier flush had written a
\* part before it failed: the store holds a batch twice.
C32_Witness ==
    /\ walOp.op = "BatchAutoFlush"
    /\ ~walOp.err
    /\ walOp.wrote > 0
    /\ bw.accepted # {}
    /\ bw.accepted \subseteq stored
    /\ \E i, j \in 1..Len(store) : i < j /\ store[i] = store[j]

-----------------------------------------------------------------------------
(* Claims about the statistics of the query cache *)

\* The entries that are older than the TTL at the given time.
olderThanTTL(c, clock) == {k \in DOMAIN c : clock - c[k].timestamp > ttl}

\* C33: QueryCache.Stats returns the entry count, the capacity and the number
\* of entries older than the TTL, and removes no entry: the cache contents and
\* the LRU order are the same after Stats as before it.
C33_StatsCountsAndKeeps ==
    qcOp.op = "Stats" =>
        /\ ~qcOp.fatal
        /\ qcOp.stats = [Size |-> Cardinality(DOMAIN qcOp.cacheBefore),
                         Capacity |-> capacity,
                         Expired |-> Cardinality(olderThanTTL(qcOp.cacheBefore, qcOp.at))]
        /\ cache = qcOp.cacheBefore
        /\ lru = qcOp.lruBefore

\* No call on the cache is in progress.
quiet == \A g \in DOMAIN goroutines : goroutines[g].pc = "idle"

\* The runtime has ended the process.
processEnded == \E g \in DOMAIN goroutines : goroutines[g].pc = "dead"

\* C34: QueryCache.Stats releases exactly the lock hold it acquired: a Stats
\* call does not end the process, and whenever no call is in progress the cache
\* lock is free, so that later Get, Put, Clear, Size and Stats calls complete.
C34_StatsReleasesItsHold ==
    /\ ~processEnded
    /\ quiet => mu["qc"] = Unlocked
-----------------------------------------------------------------------------
(* Claims about blocks that are written again *)

\* Every Write that carried the series under the tenant succeeded.
neverFailed(tenantID, metric) ==
    /\ <<tenantID, metric>> \in DOMAIN touched
    /\ ~touched[<<tenantID, metric>>].failed

\* The samples written under the tenant for the metric, as the store keeps
\* them, that lie strictly inside the range.
storedInRange(tenantID, metric, startTime, endTime) ==
    {s \in {asStored(w[3]) : w \in {x \in written : x[1] = tenantID /\ x[2] = metric}} :
        s.Timestamp > startTime /\ s.Timestamp < endTime}

\* C35: the samples stored by a successful Write stay returned by Query after
\* any later successful Write for the same tenant and series, also one that
\* carries other samples of the same one-hour block: a Query whose reads fail
\* on missing blocks only returns every sample that successful Writes stored in its range.
C35_LaterWriteKeepsSamples ==
    (stOp.op = "Query" /\ \A r \in stOp.reads : r.err => r.missing) =>
      \A metric \in Metrics :
        (metric.Name = stOp.req.Query /\ neverFailed(stOp.req.TenantID, metric)) =>
          storedInRange(stOp.req.TenantID, metric, stOp.req.StartTime, stOp.req.EndTime)
            \subseteq SeqToSet(resultSamples(stOp.result, metric))

-----------------------------------------------------------------------------
(* Claims about the buffer of the batch writer *)

\* The last call flushed a buffer that was not empty, and the flush failed.
flushFailed ==
    /\ walOp.op \in {"Write", "BatchFlush", "BatchAutoFlush"}
    /\ Len(walOp.flushOf) > 0
    /\ walOp.err

\* The step is a flush of a buffer that is not empty.
flushes == flushed' /\ walOp'.op # "BatchClose"

\* C36: when a flush of the BatchWriter fails, the buffer still holds every
\* request that was buffered before the flush, in the same order, and the next
\* flush attempts all of them again: a failed flush drops no buffered request.
C36_FailedFlushKeepsBuffer ==
    /\ [](flushFailed => bw.buffer = walOp.flushOf)
    /\ [][(flushFailed /\ flushes) =>
            /\ Len(walOp'.flushOf) >= Len(walOp.flushOf)
            /\ SubSeq(walOp'.flushOf, 1, Len(walOp.flushOf)) = walOp.flushOf]_vars

\* A flush failed after the store had taken the batch of one tenant, and the
\* buffer holds both requests.
C36_Witness ==
    /\ flushFailed
    /\ walOp.wrote > 0
    /\ Len(bw.buffer) = 2
    /\ bw.buffer = walOp.flushOf
\* C37: after any sequence of BatchWriter.Write calls, Flush calls and timer
\* ticks, also ones whose store writes fail, the buffer of an open writer (of a
\* bufferSize of at least 1) never holds more than bufferSize requests.
C37_BufferWithinSize ==
    (bw.open /\ bw.bufferSize >= 1) => Len(bw.buffer) <= bw.bufferSize
-----------------------------------------------------------------------------
(* Claims about the buckets of the inverted index *)

\* No ID occurs twice in the list.
distinctIDs(ids) == \A i, j \in 1..Len(ids) : i # j => ids[i] # ids[j]

\* C38: after any sequence of Index.AddSeries calls with any metrics, also a
\* metric whose label map has a __name__ key, every bucket of the inverted
\* index lists each series ID at most once, and FindSeries never returns the
\* same ID twice.
C38_BucketsListIDsOnce ==
    /\ \A name \in DOMAIN labelIndex : \A value \in DOMAIN labelIndex[name] :
          distinctIDs(labelIndex[name][value])
    /\ idxOp.op = "FindSeries" => distinctIDs(idxOp.result)
\* C39: Index.FindSeries does not modify the Index: the series map and every
\* label bucket, the order of its IDs included, are the same after the call as
\* before it.
C39_FindSeriesWritesNothing ==
    [][idxOp'.op = "FindSeries" => (series' = series /\ labelIndex' = labelIndex)]_vars
-----------------------------------------------------------------------------
(* Claims about the storage keys *)

\* The byte of '/' occurs in the string.
hasSlash(str) == \E i \in 1..Len(str) : str[i] = 47

\* C40: generateKey gives distinct storage keys to distinct (tenantID,
\* seriesID, blockStart) triples, for all tenant strings, also ones that
\* contain '/': two triples have the same key only if they are the same, so no
\* two tenants address the same stored block.
C40_KeysAreDistinct ==
    stOp.op = "generateKey" => (stOp.keyA = stOp.keyB <=> stOp.a = stOp.b)

\* Two tenants, one of them "a/", with the same series and block: two keys.
C40_Witness ==
    /\ stOp.op = "generateKey"
    /\ stOp.a[1] # stOp.b[1]
    /\ hasSlash(stOp.a[1])
    /\ stOp.a[2] = stOp.b[2]
    /\ stOp.a[3] = stOp.b[3]
    /\ stOp.keyA # stOp.keyB
====
